---- MODULE Spec2Model ----
(***************************************************************************)
(* A model of the Chronicle front end (Svelte stores and components) and   *)
(* of the command layer it talks to.                                       *)
(*                                                                         *)
(* Every `await` of a backend command is a yield point: an action runs a   *)
(* handler from one yield point to the next (or to its return), as the     *)
(* JavaScript event loop does.  An optional value (T | null) is the empty  *)
(* tuple for null and a one-element tuple for a value.                     *)
(***************************************************************************)
EXTENDS Integers, Sequences, FiniteSets, Bags, TLC

VARIABLES
    \* src/lib/stores/sync.ts
    syncStatus,       \* writable<SyncStatus | null>
    isSyncing,        \* writable(false)
    syncError,        \* writable<string | null>
    currentConflict,  \* writable<ConflictInfo | null> (the conflict's path)
    \* components
    showSetup,        \* SyncButton: let showSetup
    resolving,        \* ConflictModal: let resolving
    mounted,          \* SyncButton has been mounted (onMount ran)
    \* the asynchronous calls in flight: a bag of call records
    calls,
    lastResult,       \* the last push()/pull() return: null or its success
    \* the version-controlled working copy behind the sync commands
    repo,
    \* the notes behind the note commands (mocks.notes)
    mockNotes,
    \* src/lib/stores/vault.ts
    vaultInfo,        \* writable<VaultInfo | null>(null)
    notes,            \* writable<NoteMeta[]>([])
    \* src/lib/stores/editor.ts
    currentNote,      \* writable<Note | null>(null)
    backlinks,        \* writable<Backlink[]>([])
    isDirty,          \* writable(false)
    isSaving,         \* writable(false)
    \* components
    contextMenu,      \* FileTree: let contextMenu (the note it was opened on)
    tags,             \* TagList: let tags
    noteCalls,        \* the note handlers in flight: a bag of call records
    edits,            \* how many commands that change notes were started
    \* src/lib/stores/search.ts
    searchQuery,      \* writable('')
    searchResults,    \* writable<SearchResult[]>([])
    isSearching,      \* writable(false)
    searchTimeout,    \* the pending debounce timer (the query it will search)
    searches,         \* the performSearch() calls in flight: a bag of queries
    lastSearchOp,     \* the search-store function that ran last
    lastSearch,       \* the last search_notes command answered: query, results
    elapsed,          \* the ms since the last setSearchQuery (up to DebounceMs)
    burst,            \* the setSearchQuery calls less than DebounceMs apart
    cleared,          \* clearSearch() ran and no setSearchQuery after it
    \* src/lib/stores/vault.ts: error = writable<string | null>(null)
    vaultError,
    \* the last operation whose backend command rejected, and what became
    \* of the rejection
    lastFailure,
    \* src/lib/stores/graph.ts
    graphData,        \* writable<GraphData>({ nodes: [], edges: [] })
    isLoadingGraph,   \* writable(false)
    \* the vault watcher's side of the boundary
    watcherQueue,     \* the normalized events not yet polled
    emitted,          \* the 'vault-event' events emitted, not yet handled
    \* src/lib/stores/vault.ts: the wiring of the vault events
    unlistenFn,       \* let unlistenFn: the listener it removes, or null
    pollInterval,     \* let pollInterval: the interval timer, or null
    listeners,        \* the 'vault-event' listeners registered
    timers,           \* the interval timers running
    listening,        \* how many initVaultEvents() await api.onVaultEvent
    lastWiringOp,     \* initVaultEvents or cleanupVaultEvents, called last
    \* src/lib/components/editor/wikiLinkPlugin.ts
    lastIndex,        \* WIKI_LINK_RE.lastIndex
    doc,              \* the document of the editor view
    lastClick,        \* the last click the plugin handled, and its outcome
    \* src/lib/plugins/api.ts: class PluginEvents
    pluginNote,       \* private currentNote: PluginNote | null = null
    pluginContent,    \* private currentContent: string = ''
    \* src/lib/stores/vault.ts: the tag filter
    tagFilter,        \* writable<string | null>(null)
    filteredNotePaths, \* writable<Set<string> | null>(null)
    filterCalls,      \* the setTagFilter() calls in flight: a bag of tags
    \* src/lib/stores/plugins.ts and src/lib/plugins/api.ts
    contexts,         \* activeContexts: per plugin, its context's
                      \* effectiveSettings (null: no context)
    storedSettings,   \* pluginSettings: settings[pluginId][key]
    registry,         \* the PluginRegistry: three sets of full ids
    storage,          \* localStorage under 'plugin:<id>:<key>'
    callbacks,        \* PluginEvents.noteChangeCallbacks
    handles           \* the unsubscribe functions handed out so far

syncVars == <<syncStatus, isSyncing, syncError, currentConflict, showSetup,
              resolving, mounted, calls, lastResult, repo>>

searchVars == <<searchQuery, searchResults, isSearching, searchTimeout,
                searches, lastSearchOp, lastSearch, elapsed, burst,
                cleared>>

noteVars == <<vaultInfo, notes, currentNote, backlinks, isDirty, isSaving,
              contextMenu, tags, noteCalls, edits>>

failVars == <<vaultError, lastFailure>>

graphVars == <<graphData, isLoadingGraph>>

wiringVars == <<unlistenFn, pollInterval, listeners, timers, listening,
                lastWiringOp>>

eventVars == <<watcherQueue, emitted, wiringVars>>

clickVars == <<lastIndex, doc, lastClick>>

apiVars == <<pluginNote, pluginContent>>

filterVars == <<tagFilter, filteredNotePaths, filterCalls>>

pluginVars == <<contexts, storedSettings, registry, storage, callbacks,
                handles>>

laterVars == <<clickVars, apiVars, filterVars, pluginVars>>

\* all but the notes, the note stores and what plugins see of them
outerVars == <<syncVars, searchVars, failVars, graphVars, eventVars,
               clickVars, filterVars, pluginVars>>

otherVars == <<graphVars, eventVars, laterVars>>

\* the stores and component state that show notes
shownVars == <<vaultInfo, notes, currentNote, backlinks, isDirty, isSaving,
               contextMenu, tags>>

nonNoteVars == <<syncVars, searchVars, failVars, otherVars>>

nonSyncVars == <<mockNotes, noteVars, searchVars, failVars, otherVars>>

nonSearchVars == <<syncVars, mockNotes, noteVars, otherVars>>

vars == <<syncVars, mockNotes, noteVars, searchVars, failVars, otherVars>>

----------------------------------------------------------------------------
(* Optional values *)

Null == <<>>

Some(x) == <<x>>

IsNull(o) == o = <<>>

Get(o) == o[1]

----------------------------------------------------------------------------
(* Bounds *)

\* asynchronous sync-store calls that may be in flight at once
MaxCalls == 2

\* the paths a pull may find changed on both sides, in status order
ConflictPathOrder == <<"a.md", "b.md">>

ConflictPaths == {ConflictPathOrder[i] : i \in 1..Len(ConflictPathOrder)}

----------------------------------------------------------------------------
(* The sync commands' side of the boundary: sync_status, sync_init,        *)
(* sync_push, sync_pull, sync_get_conflict, sync_resolve_conflict.         *)

InSet(S, p) == p \in S

\* the ordered conflict list of a conflict set
ConflictList(S) == SelectSeq(ConflictPathOrder, LAMBDA p : InSet(S, p))

\* sync_status(): pure read of the working copy
RepoStatus(r) ==
    [initialized |-> r.initialized,
     conflicts   |-> ConflictList(r.conflicts),
     dirty       |-> r.dirty,
     ahead       |-> r.ahead,
     behind      |-> r.behind]

\* sync_init(): creates the repository and commits the vault's contents
RepoInit(r) == [r EXCEPT !.initialized = TRUE, !.dirty = FALSE]

\* sync_pull(): merges the remote history; cs are the paths found changed
\* on both sides
RepoPull(r, cs) == [r EXCEPT !.conflicts = r.conflicts \cup cs, !.behind = 0]

\* sync_push(): commits everything dirty and uploads
RepoPush(r) == [r EXCEPT !.dirty = FALSE]

\* sync_resolve_conflict(path, _): removes the path from the conflict set
\* and commits (the commits-ahead count is left out of the working copy)
RepoResolve(r, p) == [r EXCEPT !.conflicts = r.conflicts \ {p}]

\* SyncResult of a completed command
SyncResultOf(r) == [success |-> TRUE, conflicts |-> ConflictList(r.conflicts)]

\* what is kept of the value a push() or pull() call returns
Outcome(result) == IF IsNull(result) THEN Null ELSE Some(Get(result).success)

----------------------------------------------------------------------------
(* src/lib/stores/sync.ts: derived stores *)

\* isInitialized: $status?.initialized ?? false
IsInitialized(status) == IF IsNull(status) THEN FALSE ELSE Get(status).initialized

\* hasConflicts: ($status?.conflicts.length ?? 0) > 0
HasConflicts(status) ==
    IF IsNull(status) THEN FALSE ELSE Len(Get(status).conflicts) > 0

\* SyncStateOf with the pending test ahead of the conflict test
SyncStateOfPendingFirst(status, error, syncing) ==
    IF syncing THEN "syncing"
    ELSE IF ~IsNull(error) THEN "error"
    ELSE IF ~IsInitialized(status) THEN "uninitialized"
    ELSE IF Get(status).dirty \/ Get(status).ahead > 0 \/ Get(status).behind > 0
         THEN "pending"
    ELSE IF Len(Get(status).conflicts) > 0 THEN "conflict"
    ELSE "synced"

\* syncState: the status indicator
SyncStateOf(status, error, syncing) ==
    IF syncing THEN "syncing"
    ELSE IF ~IsNull(error) THEN "error"
    ELSE IF ~IsInitialized(status) THEN "uninitialized"
    ELSE IF Len(Get(status).conflicts) > 0 THEN "conflict"
    ELSE IF Get(status).dirty \/ Get(status).ahead > 0 \/ Get(status).behind > 0
         THEN "pending"
    ELSE "synced"

syncState == SyncStateOf(syncStatus, syncError, isSyncing)

\* sync(): `status?.conflicts.length ?? 0 > 0`, which JavaScript parses as
\* `status?.conflicts.length ?? (0 > 0)`: false for a null status, otherwise
\* the length itself, truthy when it is not 0
ConflictsTruthy(status) ==
    IF IsNull(status) THEN FALSE ELSE Len(Get(status).conflicts) # 0

----------------------------------------------------------------------------
(* Calls in flight *)

\* a call of kind k waiting at the await pc
NewCall(k, p, path) ==
    [kind |-> k, pc |-> p, pullResult |-> Null, result |-> Null, path |-> path]

\* room for one more call in flight
HasFreeSlot == BagCardinality(calls) < MaxCalls

InFlight == BagToSet(calls)

\* the bag of calls with one more call
Started(c) == calls (+) SetToBag({c})

\* the bag of calls once call c has returned
Returned(c) == calls (-) SetToBag({c})

\* the bag of calls once call c has moved on to the await d
Moved(c, d) == (calls (-) SetToBag({c})) (+) SetToBag({d})

ErrorMessage == Some("error")

----------------------------------------------------------------------------
(* Initial state *)

SyncInit ==
    /\ syncStatus = Null
    /\ isSyncing = FALSE
    /\ syncError = Null
    /\ currentConflict = Null
    /\ showSetup = FALSE
    /\ resolving = FALSE
    /\ mounted = FALSE
    /\ calls = EmptyBag
    /\ lastResult = [op |-> "none", value |-> Null]
    /\ repo \in {[initialized |-> i, conflicts |-> {}, dirty |-> FALSE,
                  ahead |-> 0, behind |-> 0] : i \in BOOLEAN}

----------------------------------------------------------------------------
(* refreshStatus() *)

\* what refreshStatus() leaves in syncStatus: the status read, or on a
\* rejected sync_status the value the store already held
StatusAfterRefresh(ok) == IF ok THEN Some(RepoStatus(repo)) ELSE syncStatus

\* what refreshStatus() leaves in syncError
ErrorAfterRefresh(ok) == IF ok THEN Null ELSE ErrorMessage

\* SyncButton onMount: refreshStatus() issues sync_status
Mount ==
    /\ ~mounted
    /\ mounted' = TRUE
    /\ calls' = Started(NewCall("refresh", "status_wait", Null))
    /\ UNCHANGED <<nonSyncVars, syncStatus, isSyncing,
                   syncError, currentConflict, showSetup, resolving,
                   lastResult, repo>>

\* sync_status settles for a bare refreshStatus()
RefreshDone(c) ==
    /\ c.pc = "status_wait"
    /\ \E ok \in BOOLEAN :
          /\ syncStatus' = StatusAfterRefresh(ok)
          /\ syncError' = ErrorAfterRefresh(ok)
    /\ calls' = Returned(c)
    /\ UNCHANGED <<nonSyncVars, isSyncing,
                   currentConflict, showSetup, resolving, mounted, lastResult,
                   repo>>

----------------------------------------------------------------------------
(* SyncButton *)

\* sync() from its first line to the await inside pull(): pull() sets
\* isSyncing, clears syncError and issues sync_pull
SyncStart ==
    /\ isSyncing' = TRUE
    /\ syncError' = Null
    /\ calls' = Started(NewCall("sync", "pull_wait", Null))
    /\ UNCHANGED <<nonSyncVars, syncStatus,
                   currentConflict, showSetup, resolving, mounted, lastResult,
                   repo>>

\* the sync button (hidden while the setup form shows, disabled while
\* $isSyncing)
HandleClick ==
    /\ mounted
    /\ ~showSetup
    /\ ~isSyncing
    /\ IF ~IsInitialized(syncStatus)
       THEN /\ showSetup' = TRUE
            /\ UNCHANGED <<nonSyncVars, syncStatus,
                           isSyncing, syncError, currentConflict, resolving,
                           mounted, calls, lastResult, repo>>
       ELSE /\ HasFreeSlot
            /\ SyncStart

\* the setup form's Initialize button: initSync(url) up to its await
HandleSetup ==
    /\ mounted
    /\ showSetup
    /\ HasFreeSlot
    /\ isSyncing' = TRUE
    /\ syncError' = Null
    /\ calls' = Started(NewCall("init", "init_wait", Null))
    /\ UNCHANGED <<nonSyncVars, syncStatus,
                   currentConflict, showSetup, resolving, mounted, lastResult,
                   repo>>

\* the setup form's Cancel button
CancelSetup ==
    /\ mounted
    /\ showSetup
    /\ showSetup' = FALSE
    /\ UNCHANGED <<nonSyncVars, syncStatus, isSyncing,
                   syncError, currentConflict, resolving, mounted, calls,
                   lastResult, repo>>

\* sync_init resolves (the repository did not exist): initSync() stores the
\* status and returns true, handleSetup() hides the form
InitResolve(c) ==
    /\ c.pc = "init_wait"
    /\ ~repo.initialized
    /\ repo' = RepoInit(repo)
    /\ syncStatus' = Some(RepoStatus(repo'))
    /\ isSyncing' = FALSE
    /\ showSetup' = FALSE
    /\ calls' = Returned(c)
    /\ UNCHANGED <<nonSyncVars, syncError,
                   currentConflict, resolving, mounted, lastResult>>

\* sync_init rejects (AlreadyInitialized, or any other failure)
InitReject(c) ==
    /\ c.pc = "init_wait"
    /\ syncError' = ErrorMessage
    /\ isSyncing' = FALSE
    /\ calls' = Returned(c)
    /\ UNCHANGED <<nonSyncVars, syncStatus,
                   currentConflict, showSetup, resolving, mounted, lastResult,
                   repo>>

----------------------------------------------------------------------------
(* pull(), and sync() after it *)

\* pull() has returned its result to sync(): pull's finally clears
\* isSyncing; sync() returns unless the pull succeeded and the status store
\* shows no conflicts, and otherwise runs push() up to its await
SyncAfterPull(c, st, er, cc) ==
    LET pullResult == c.result IN
    /\ syncStatus' = st
    /\ currentConflict' = cc
    /\ lastResult' = [op |-> "pull", value |-> Outcome(pullResult)]
    /\ IF ~Get(pullResult).success \/ ConflictsTruthy(st)
       THEN /\ isSyncing' = FALSE
            /\ syncError' = er
            /\ calls' = Returned(c)
       ELSE /\ isSyncing' = TRUE
            /\ syncError' = Null
            /\ calls' = Moved(c, [kind |-> "sync", pc |-> "push_wait",
                                   pullResult |-> pullResult, result |-> Null,
                                   path |-> Null])
    /\ UNCHANGED <<nonSyncVars, showSetup, resolving,
                   mounted, repo>>

\* sync_pull resolves: pull() keeps the result and awaits refreshStatus()
PullResolve(c) ==
    /\ c.pc = "pull_wait"
    /\ repo.initialized
    /\ \E cs \in SUBSET ConflictPaths :
          /\ cs # {} => repo.dirty /\ repo.behind > 0
          /\ repo' = RepoPull(repo, cs)
    /\ calls' = Moved(c, [c EXCEPT !.pc = "pull_refresh",
                                    !.result = Some(SyncResultOf(repo'))])
    /\ UNCHANGED <<nonSyncVars, syncStatus, isSyncing,
                   syncError, currentConflict, showSetup, resolving, mounted,
                   lastResult>>

\* PullReject with a catch block that also drops the status it cannot verify
PullRejectDropsStatus(c) ==
    /\ c.pc = "pull_wait"
    /\ syncError' = ErrorMessage
    /\ syncStatus' = Null
    /\ isSyncing' = FALSE
    /\ lastResult' = [op |-> "pull", value |-> Null]
    /\ calls' = Returned(c)
    /\ UNCHANGED <<nonSyncVars, currentConflict,
                   showSetup, resolving, mounted, repo>>

\* sync_pull rejects: pull() records the error and returns null, and sync()
\* returns it
PullReject(c) ==
    /\ c.pc = "pull_wait"
    /\ syncError' = ErrorMessage
    /\ isSyncing' = FALSE
    /\ lastResult' = [op |-> "pull", value |-> Null]
    /\ calls' = Returned(c)
    /\ UNCHANGED <<nonSyncVars, syncStatus,
                   currentConflict, showSetup, resolving, mounted, repo>>

\* pull()'s refreshStatus() settles: with conflicts in the result pull()
\* awaits loadConflict(result.conflicts[0]), otherwise it returns
PullRefreshDone(c) ==
    /\ c.pc = "pull_refresh"
    /\ \E ok \in BOOLEAN :
          LET result == Get(c.result) IN
          IF Len(result.conflicts) > 0
          THEN /\ syncStatus' = StatusAfterRefresh(ok)
               /\ syncError' = ErrorAfterRefresh(ok)
               /\ calls' = Moved(c, [c EXCEPT !.pc = "pull_load",
                                               !.path = Some(result.conflicts[1])])
               /\ UNCHANGED <<nonSyncVars, isSyncing,
                              currentConflict, showSetup, resolving, mounted,
                              lastResult, repo>>
          ELSE SyncAfterPull(c, StatusAfterRefresh(ok), ErrorAfterRefresh(ok),
                             currentConflict)

\* pull()'s loadConflict() settles: sync_get_conflict resolves only for a
\* path still in conflict
PullLoadDone(c) ==
    /\ c.pc = "pull_load"
    /\ \E ok \in BOOLEAN :
          /\ ok => Get(c.path) \in repo.conflicts
          /\ SyncAfterPull(c, syncStatus,
                           IF ok THEN syncError ELSE ErrorMessage,
                           IF ok THEN c.path ELSE currentConflict)

----------------------------------------------------------------------------
(* push() *)

\* sync_push resolves (refused while conflicts exist): push() keeps the
\* result and awaits refreshStatus()
PushResolve(c) ==
    /\ c.pc = "push_wait"
    /\ repo.initialized
    /\ repo.conflicts = {}
    /\ repo' = RepoPush(repo)
    /\ calls' = Moved(c, [c EXCEPT !.pc = "push_refresh",
                                    !.result = Some(SyncResultOf(repo'))])
    /\ UNCHANGED <<nonSyncVars, syncStatus, isSyncing,
                   syncError, currentConflict, showSetup, resolving, mounted,
                   lastResult>>

\* sync_push rejects: push() records the error and returns null
PushReject(c) ==
    /\ c.pc = "push_wait"
    /\ syncError' = ErrorMessage
    /\ isSyncing' = FALSE
    /\ lastResult' = [op |-> "push", value |-> Null]
    /\ calls' = Returned(c)
    /\ UNCHANGED <<nonSyncVars, syncStatus,
                   currentConflict, showSetup, resolving, mounted, repo>>

\* push()'s refreshStatus() settles and push() returns its result
PushRefreshDone(c) ==
    /\ c.pc = "push_refresh"
    /\ \E ok \in BOOLEAN :
          /\ syncStatus' = StatusAfterRefresh(ok)
          /\ syncError' = ErrorAfterRefresh(ok)
    /\ isSyncing' = FALSE
    /\ lastResult' = [op |-> "push", value |-> Outcome(c.result)]
    /\ calls' = Returned(c)
    /\ UNCHANGED <<nonSyncVars, currentConflict,
                   showSetup, resolving, mounted, repo>>

----------------------------------------------------------------------------
(* ConflictModal and resolveConflict() *)

\* a resolution button (the modal shows while $currentConflict is set, its
\* buttons are disabled while resolving): resolveConflict() up to its await.
\* The three resolutions differ in the file contents they leave, which the
\* store never reads.
HandleResolve ==
    /\ mounted
    /\ ~IsNull(currentConflict)
    /\ ~resolving
    /\ HasFreeSlot
    /\ resolving' = TRUE
    /\ isSyncing' = TRUE
    /\ syncError' = Null
    /\ calls' = Started(NewCall("resolve", "resolve_wait", currentConflict))
    /\ UNCHANGED <<nonSyncVars, syncStatus,
                   currentConflict, showSetup, mounted, lastResult, repo>>

\* the modal's close button
CloseModal ==
    /\ mounted
    /\ ~IsNull(currentConflict)
    /\ currentConflict' = Null
    /\ UNCHANGED <<nonSyncVars, syncStatus, isSyncing,
                   syncError, showSetup, resolving, mounted, calls,
                   lastResult, repo>>

\* sync_resolve_conflict resolves (the path was in conflict):
\* resolveConflict() clears currentConflict and awaits refreshStatus()
ResolveResolve(c) ==
    /\ c.pc = "resolve_wait"
    /\ Get(c.path) \in repo.conflicts
    /\ repo' = RepoResolve(repo, Get(c.path))
    /\ currentConflict' = Null
    /\ calls' = Moved(c, [c EXCEPT !.pc = "resolve_refresh",
                                    !.result = Some(SyncResultOf(repo'))])
    /\ UNCHANGED <<nonSyncVars, syncStatus, isSyncing,
                   syncError, showSetup, resolving, mounted, lastResult>>

\* sync_resolve_conflict rejects: resolveConflict() returns false and
\* handleResolve() loads nothing
ResolveReject(c) ==
    /\ c.pc = "resolve_wait"
    /\ syncError' = ErrorMessage
    /\ isSyncing' = FALSE
    /\ resolving' = FALSE
    /\ calls' = Returned(c)
    /\ UNCHANGED <<nonSyncVars, syncStatus,
                   currentConflict, showSetup, mounted, lastResult, repo>>

\* resolveConflict()'s refreshStatus() settles and it returns
\* result.success; handleResolve() then loads the next conflict, if any
ResolveRefreshDone(c) ==
    /\ c.pc = "resolve_refresh"
    /\ \E ok \in BOOLEAN :
          /\ syncStatus' = StatusAfterRefresh(ok)
          /\ syncError' = ErrorAfterRefresh(ok)
    /\ isSyncing' = FALSE
    /\ resolving' = FALSE
    /\ IF Get(c.result).success /\ HasConflicts(syncStatus')
       THEN calls' = Moved(c, [c EXCEPT !.pc = "next_load",
                                         !.path = Some(Get(syncStatus').conflicts[1])])
       ELSE calls' = Returned(c)
    /\ UNCHANGED <<nonSyncVars, currentConflict,
                   showSetup, mounted, lastResult, repo>>

\* handleResolve()'s loadConflict() settles
NextLoadDone(c) ==
    /\ c.pc = "next_load"
    /\ \E ok \in BOOLEAN :
          /\ ok => Get(c.path) \in repo.conflicts
          /\ currentConflict' = IF ok THEN c.path ELSE currentConflict
          /\ syncError' = IF ok THEN syncError ELSE ErrorMessage
    /\ calls' = Returned(c)
    /\ UNCHANGED <<nonSyncVars, syncStatus, isSyncing,
                   showSetup, resolving, mounted, lastResult, repo>>

----------------------------------------------------------------------------
(* The vault and the remote change under the sync engine *)

\* a local edit leaves the working copy dirty
LocalEdit ==
    /\ repo.initialized
    /\ ~repo.dirty
    /\ repo' = [repo EXCEPT !.dirty = TRUE]
    /\ UNCHANGED <<nonSyncVars, syncStatus, isSyncing,
                   syncError, currentConflict, showSetup, resolving, mounted,
                   calls, lastResult>>

\* another device pushes to the remote
RemoteCommit ==
    /\ repo.initialized
    /\ repo.behind = 0
    /\ repo' = [repo EXCEPT !.behind = 1]
    /\ UNCHANGED <<nonSyncVars, syncStatus, isSyncing,
                   syncError, currentConflict, showSetup, resolving, mounted,
                   calls, lastResult>>

----------------------------------------------------------------------------

SyncNext ==
    \/ Mount
    \/ HandleClick
    \/ HandleSetup
    \/ CancelSetup
    \/ HandleResolve
    \/ CloseModal
    \/ LocalEdit
    \/ RemoteCommit
    \/ \E c \in InFlight : RefreshDone(c)
    \/ \E c \in InFlight : InitResolve(c)
    \/ \E c \in InFlight : InitReject(c)
    \/ \E c \in InFlight : PullResolve(c)
    \/ \E c \in InFlight : PullReject(c)
    \/ \E c \in InFlight : PullRefreshDone(c)
    \/ \E c \in InFlight : PullLoadDone(c)
    \/ \E c \in InFlight : PushResolve(c)
    \/ \E c \in InFlight : PushReject(c)
    \/ \E c \in InFlight : PushRefreshDone(c)
    \/ \E c \in InFlight : ResolveResolve(c)
    \/ \E c \in InFlight : ResolveReject(c)
    \/ \E c \in InFlight : ResolveRefreshDone(c)
    \/ \E c \in InFlight : NextLoadDone(c)

----------------------------------------------------------------------------
(* Text.  A string is the sequence of its tokens: a maximal run of letters *)
(* and digits is one token, every other character is a token of its own.  *)
(* Two strings are equal exactly when their token sequences are.           *)

Whitespace == {" ", "\n", "\t"}

\* String.prototype.toLowerCase on one token
LowerCaseToken(t) ==
    CASE t = "Welcome"  -> "welcome"
      [] t = "Link"     -> "link"
      [] t = "Target"   -> "target"
      [] t = "Untagged" -> "untagged"
      [] t = "Note"     -> "note"
      [] t = "Test"     -> "test"
      [] t = "This"     -> "this"
      [] t = "Renamed"  -> "renamed"
      [] OTHER          -> t

\* String.prototype.toLowerCase
ToLowerCase(s) == [i \in 1..Len(s) |-> LowerCaseToken(s[i])]

\* String.prototype.includes
Includes(s, q) ==
    \E i \in 0..(Len(s) - Len(q)) : SubSeq(s, i + 1, i + Len(q)) = q

\* String.prototype.trim
RECURSIVE TrimStart(_)
TrimStart(s) ==
    IF s # <<>> /\ Head(s) \in Whitespace THEN TrimStart(Tail(s)) ELSE s

RECURSIVE TrimEnd(_)
TrimEnd(s) ==
    IF s # <<>> /\ s[Len(s)] \in Whitespace
    THEN TrimEnd(SubSeq(s, 1, Len(s) - 1))
    ELSE s

Trim(s) == TrimEnd(TrimStart(s))

\* replace(/\s+/g, '-')
RECURSIVE ReplaceWhitespaceRuns(_)
ReplaceWhitespaceRuns(s) ==
    IF s = <<>> THEN <<>>
    ELSE IF Head(s) \in Whitespace
         THEN <<"-">> \o ReplaceWhitespaceRuns(TrimStart(s))
         ELSE <<Head(s)>> \o ReplaceWhitespaceRuns(Tail(s))

----------------------------------------------------------------------------
(* The note commands as the injected __TAURI_INTERNALS__.invoke answers    *)
(* them (timestamps are left out).                                         *)

\* mockNotes
FixtureNotes ==
    << [id |-> 1,
        path |-> <<"welcome", ".", "md">>,
        title |-> <<"Welcome">>,
        content |-> <<"#", " ", "Welcome", "\n", "\n", "This", " ", "is", " ",
                      "a", " ", "test", " ", "note", " ", "with", " ", "a",
                      " ", "[", "[", "link", "-", "target", "]", "]", " ",
                      "inside", ".">>,
        word_count |-> 10,
        tags |-> <<"test", "welcome">>],
       [id |-> 2,
        path |-> <<"link", "-", "target", ".", "md">>,
        title |-> <<"Link", " ", "Target">>,
        content |-> <<"#", " ", "Link", " ", "Target", "\n", "\n", "This",
                      " ", "note", " ", "is", " ", "linked", " ", "from", " ",
                      "[", "[", "welcome", "]", "]", ".">>,
        word_count |-> 8,
        tags |-> <<"test">>],
       [id |-> 3,
        path |-> <<"untagged", ".", "md">>,
        title |-> <<"Untagged", " ", "Note">>,
        content |-> <<"#", " ", "Untagged", "\n", "\n", "This", " ", "note",
                      " ", "has", " ", "no", " ", "tags", ".">>,
        word_count |-> 6,
        tags |-> <<>>] >>

\* mockTags
MockTags == << [name |-> "test", count |-> 2], [name |-> "welcome", count |-> 1] >>

\* mockBacklinks
MockBacklinks ==
    << [source_path |-> <<"welcome", ".", "md">>,
        source_title |-> <<"Welcome">>,
        line_number |-> 3] >>

\* n => ({id, path, title, word_count, ...})
MetaOf(n) ==
    [id |-> n.id, path |-> n.path, title |-> n.title, word_count |-> n.word_count]

\* Array.prototype.findIndex by path, counted from 1 (0: not found)
FindIndex(ns, path) ==
    IF \E i \in 1..Len(ns) : ns[i].path = path
    THEN CHOOSE i \in 1..Len(ns) :
            /\ ns[i].path = path
            /\ \A j \in 1..(i - 1) : ns[j].path # path
    ELSE 0

\* list_notes
ListNotes(ns) == [i \in 1..Len(ns) |-> MetaOf(ns[i])]

\* get_note: the note, or Null where the command throws 'Note not found'
GetNote(ns, path) ==
    IF FindIndex(ns, path) = 0 THEN Null ELSE Some(ns[FindIndex(ns, path)])

\* create_note with no content argument
NewNote(ns, title) ==
    [id |-> Len(ns) + 1,
     path |-> ReplaceWhitespaceRuns(ToLowerCase(title)) \o <<".", "md">>,
     title |-> title,
     content |-> <<"#", " ">> \o title \o <<"\n", "\n">>,
     word_count |-> 2,
     tags |-> <<>>]

CreateNote(ns, title) == Append(ns, NewNote(ns, title))

\* save_note
SaveNote(ns, path, content) ==
    IF FindIndex(ns, path) = 0 THEN ns
    ELSE [ns EXCEPT ![FindIndex(ns, path)].content = content]

\* delete_note
DeleteNote(ns, path) ==
    LET idx == FindIndex(ns, path) IN
    IF idx = 0 THEN ns
    ELSE SubSeq(ns, 1, idx - 1) \o SubSeq(ns, idx + 1, Len(ns))

\* rename_note
RenameNote(ns, oldPath, newPath) ==
    IF FindIndex(ns, oldPath) = 0 THEN ns
    ELSE [ns EXCEPT ![FindIndex(ns, oldPath)].path = newPath]

\* update_note_tags
UpdateNoteTags(ns, path, newTags) ==
    IF FindIndex(ns, path) = 0 THEN ns
    ELSE [ns EXCEPT ![FindIndex(ns, path)].tags = newTags]

\* the filter of search_notes
Matches(n, query) ==
    \/ Includes(ToLowerCase(n.title), query)
    \/ Includes(ToLowerCase(n.content), query)

\* n => ({id, path, title, ..., rank: 1, match_count: 1}) (the snippet, the
\* first 100 characters of the content, is left out)
ResultOf(n) ==
    [id |-> n.id, path |-> n.path, title |-> n.title, rank |-> 1,
     match_count |-> 1]

\* search_notes (the limit argument is ignored)
SearchNotes(ns, query) ==
    LET q == ToLowerCase(query)
        found == SelectSeq(ns, LAMBDA n : Matches(n, q))
    IN [i \in 1..Len(found) |-> ResultOf(found[i])]

\* get_backlinks_cmd
GetBacklinks(path) ==
    IF path = <<"link", "-", "target", ".", "md">> THEN MockBacklinks ELSE <<>>

\* list_tags
ListTags == MockTags

HasTag(n, tag) == \E i \in 1..Len(n.tags) : n.tags[i] = tag

\* get_notes_by_tag
GetNotesByTag(ns, tag) == SelectSeq(ns, LAMBDA n : HasTag(n, tag))

----------------------------------------------------------------------------
(* src/lib/stores/search.ts *)

\* what became of a rejected backend command in the operation op: whether
\* op rejected in turn (the error reached its caller) and whether op put
\* the error into an error store
Failure(op, thrown, stored) ==
    Some([op |-> op, thrown |-> thrown, stored |-> stored])

\* performSearch() calls that may be in flight at once
MaxSearches == 2

\* what is typed into the search box
Queries ==
    {<<>>, <<" ">>, <<" ", " ", " ">>, <<"welcome">>, <<"link", " ", "target">>}

\* !query.trim()
IsBlank(query) == Trim(query) = <<>>

\* the delay of setTimeout(() => performSearch(query), 150)
DebounceMs == 150

\* the times that pass between two steps of the search store
Delays == {50, 100, 150}

\* the smaller of two numbers
Min(a, b) == IF a < b THEN a ELSE b

\* the burst that a setSearchQuery(query) call belongs to: the one under
\* way when the call before it is less than DebounceMs old, a new one
\* otherwise; `issued` are the queries of the search_notes calls of the burst
BurstWith(query) ==
    IF elapsed < DebounceMs
    THEN [burst EXCEPT !.last = Some(query)]
    ELSE [first |-> Some(query), last |-> Some(query), issued |-> <<>>]

SearchStoreInit ==
    /\ searchQuery = <<>>
    /\ searchResults = <<>>
    /\ isSearching = FALSE
    /\ searchTimeout = Null
    /\ searches = EmptyBag
    /\ lastSearchOp = "none"
    /\ lastSearch = Null
    /\ elapsed = DebounceMs
    /\ burst = [first |-> Null, last |-> Null, issued |-> <<>>]
    /\ cleared = FALSE

\* setSearchQuery(query): clearTimeout cancels the pending timer; a blank
\* query empties the results, any other query arms the 150 ms timer
SetSearchQuery(query) ==
    /\ searchQuery' = query
    /\ IF IsBlank(query)
       THEN /\ searchResults' = <<>>
            /\ searchTimeout' = Null
       ELSE /\ searchTimeout' = Some(query)
            /\ UNCHANGED searchResults
    /\ lastSearchOp' = "setSearchQuery"
    /\ elapsed' = 0
    /\ burst' = BurstWith(query)
    /\ cleared' = FALSE
    /\ UNCHANGED <<failVars, nonSearchVars, isSearching, searches,
                   lastSearch>>

\* time passes
Tick(ms) ==
    /\ elapsed < DebounceMs
    /\ elapsed' = Min(elapsed + ms, DebounceMs)
    /\ UNCHANGED <<failVars, nonSearchVars, searchQuery, searchResults,
                   isSearching, searchTimeout, searches, lastSearchOp,
                   lastSearch, burst, cleared>>

\* TimerFires with a timer that does not wait
TimerFiresAtOnce ==
    /\ ~IsNull(searchTimeout)
    /\ BagCardinality(searches) < MaxSearches
    /\ searchTimeout' = Null
    /\ IF IsBlank(Get(searchTimeout))
       THEN /\ searchResults' = <<>>
            /\ UNCHANGED <<isSearching, searches, burst>>
       ELSE /\ isSearching' = TRUE
            /\ searches' = searches (+) SetToBag({Get(searchTimeout)})
            /\ burst' = [burst EXCEPT !.issued = @ \o <<Get(searchTimeout)>>]
            /\ UNCHANGED searchResults
    /\ lastSearchOp' = "performSearch"
    /\ UNCHANGED <<failVars, nonSearchVars, searchQuery, lastSearch,
                   elapsed, cleared>>

\* the debounce timer fires, DebounceMs after the setSearchQuery that armed
\* it: performSearch(query) up to its await
TimerFires ==
    /\ ~IsNull(searchTimeout)
    /\ elapsed = DebounceMs
    /\ BagCardinality(searches) < MaxSearches
    /\ searchTimeout' = Null
    /\ IF IsBlank(Get(searchTimeout))
       THEN /\ searchResults' = <<>>
            /\ UNCHANGED <<isSearching, searches, burst>>
       ELSE /\ isSearching' = TRUE
            /\ searches' = searches (+) SetToBag({Get(searchTimeout)})
            /\ burst' = [burst EXCEPT !.issued = @ \o <<Get(searchTimeout)>>]
            /\ UNCHANGED searchResults
    /\ lastSearchOp' = "performSearch"
    /\ UNCHANGED <<failVars, nonSearchVars, searchQuery, lastSearch,
                   elapsed, cleared>>

\* search_notes settles for the performSearch(query) in flight: the results
\* are stored, or [] when the command rejected
SearchDone(query) ==
    /\ BagIn(query, searches)
    /\ \/ /\ searchResults' = SearchNotes(mockNotes, query)
          /\ lastSearch' = Some([query |-> query,
                                 results |-> SearchNotes(mockNotes, query)])
          /\ UNCHANGED lastFailure
       \/ /\ searchResults' = <<>>
          /\ lastFailure' = Failure("performSearch", FALSE, FALSE)
          /\ UNCHANGED lastSearch
    /\ isSearching' = FALSE
    /\ searches' = searches (-) SetToBag({query})
    /\ lastSearchOp' = "performSearch"
    /\ UNCHANGED <<vaultError, nonSearchVars, searchQuery, searchTimeout,
                   elapsed, burst, cleared>>

\* clearSearch()
ClearSearch ==
    /\ searchQuery' = <<>>
    /\ searchResults' = <<>>
    /\ lastSearchOp' = "clearSearch"
    /\ cleared' = TRUE
    /\ UNCHANGED <<failVars, nonSearchVars, isSearching, searchTimeout,
                   searches, lastSearch, elapsed, burst>>

\* api.searchNotes(query) called on its own: search_notes answers
SearchNotesCall(query) ==
    /\ lastSearch' = Some([query |-> query,
                           results |-> SearchNotes(mockNotes, query)])
    /\ UNCHANGED <<failVars, nonSearchVars, searchQuery, searchResults,
                   isSearching, searchTimeout, searches, lastSearchOp,
                   elapsed, burst, cleared>>

SearchNext ==
    \/ \E query \in Queries : SetSearchQuery(query)
    \/ \E ms \in Delays : Tick(ms)
    \/ TimerFires
    \/ \E query \in Queries : SearchDone(query)
    \/ ClearSearch
    \/ \E query \in Queries : SearchNotesCall(query)

----------------------------------------------------------------------------
(* The vault store, the editor store and the components that change notes  *)

\* note handlers that may be in flight at once
MaxNoteCalls == 1

\* notes the note collection may hold
MaxNotes == 4

\* commands that change notes a run may start
MaxEdits == 2

\* what is typed into the 'Note title:' prompt
NewTitles == {<<"Test", " ", "Note">>, <<"Welcome">>}

\* what is typed into the 'New name:' prompt
RenameTitles == {<<"Renamed">>, <<"link", "-", "target">>}

\* what is typed into the editor
TypedContents == {<<"edited">>}

\* what is typed into the tag input
TagInputs == {<<>>, <<"idea", ",", " ", "test">>}

\* a handler in flight: its kind, the await it is suspended at, and the
\* path, argument and note (`note` of openNote, `current` of
\* saveCurrentNote) it holds in its locals
NoteCall(k, p, path, arg) ==
    [kind |-> k, pc |-> p, path |-> path, arg |-> arg, note |-> Null]

\* toPluginNote(note)
ToPluginNote(note) ==
    [path |-> note.path, title |-> note.title, content |-> note.content,
     wordCount |-> note.word_count, tags |-> note.tags]

PluginEventsInit ==
    /\ pluginNote = Null
    /\ pluginContent = <<>>

TagFilterInit ==
    /\ tagFilter = Null
    /\ filteredNotePaths = Null
    /\ filterCalls = EmptyBag

NoteSlotFree == BagCardinality(noteCalls) < MaxNoteCalls

NotesInFlight == BagToSet(noteCalls)

NoteStarted(c) == noteCalls (+) SetToBag({c})

NoteReturned(c) == noteCalls (-) SetToBag({c})

NoteMoved(c, d) == NoteReturned(c) (+) SetToBag({d})

At(c, p) == [c EXCEPT !.pc = p]

\* $vault?.is_open ?? false
IsVaultOpen == ~IsNull(vaultInfo) /\ Get(vaultInfo).is_open

\* the paths of a list of notes, note metadata, results or backlinks
PathsOf(ns) == {ns[i].path : i \in 1..Len(ns)}

NoteStoresInit ==
    /\ vaultInfo = Null
    /\ notes = <<>>
    /\ currentNote = Null
    /\ backlinks = <<>>
    /\ isDirty = FALSE
    /\ isSaving = FALSE
    /\ contextMenu = Null
    /\ tags = <<>>
    /\ noteCalls = EmptyBag
    /\ edits = 0
    /\ vaultError = Null

\* a command that changes notes is started
Edits ==
    /\ edits < MaxEdits
    /\ edits' = edits + 1

\* Sidebar handleOpenVault -> openVault(path) up to `await api.openVault`
\* (isLoading is left out)
OpenVault ==
    /\ ~IsVaultOpen
    /\ NoteSlotFree
    /\ vaultError' = Null
    /\ noteCalls' = NoteStarted(NoteCall("openVault", "open_wait", <<>>, <<>>))
    /\ UNCHANGED <<syncVars, searchVars, lastFailure, otherVars, mockNotes,
                   vaultInfo, notes, currentNote, backlinks, isDirty,
                   isSaving, contextMenu, tags, edits>>

\* open_vault answers: vaultInfo.set(info), then `await api.listNotes()`
OpenVaultDone(c) ==
    /\ c.pc = "open_wait"
    /\ vaultInfo' = Some([is_open |-> TRUE])
    /\ noteCalls' = NoteMoved(c, At(c, "open_list"))
    /\ UNCHANGED <<nonNoteVars, mockNotes, notes, currentNote, backlinks,
                   isDirty, isSaving, contextMenu, tags, edits>>

\* list_notes answers a refreshNotes() or the listing of openVault():
\* notes.set(noteList)
ListDone(c, listPc) ==
    /\ c.pc = listPc
    /\ notes' = ListNotes(mockNotes)
    /\ noteCalls' = NoteReturned(c)

OpenListDone(c) ==
    /\ ListDone(c, "open_list")
    /\ UNCHANGED <<nonNoteVars, mockNotes, vaultInfo, currentNote, backlinks,
                   isDirty, isSaving, contextMenu, tags, edits>>

\* the settings page's Close Vault -> closeVault() up to its await
CloseVault ==
    /\ IsVaultOpen
    /\ NoteSlotFree
    /\ noteCalls' = NoteStarted(NoteCall("closeVault", "close_wait", <<>>, <<>>))
    /\ UNCHANGED <<nonNoteVars, mockNotes, vaultInfo, notes, currentNote,
                   backlinks, isDirty, isSaving, contextMenu, tags, edits>>

\* close_vault answers: vaultInfo.set(null); notes.set([]).  The sidebar
\* takes the file tree and the tag list down with their state
CloseVaultDone(c) ==
    /\ c.pc = "close_wait"
    /\ vaultInfo' = Null
    /\ notes' = <<>>
    /\ contextMenu' = Null
    /\ tags' = <<>>
    /\ noteCalls' = NoteReturned(c)
    /\ UNCHANGED <<nonNoteVars, mockNotes, currentNote, backlinks, isDirty,
                   isSaving, edits>>

\* TagList onMount -> loadTags() up to its await (the Tags tab is shown)
LoadTags ==
    /\ IsVaultOpen
    /\ NoteSlotFree
    /\ tags' = <<>>
    /\ noteCalls' = NoteStarted(NoteCall("loadTags", "tags_list", <<>>, <<>>))
    /\ UNCHANGED <<nonNoteVars, mockNotes, vaultInfo, notes, currentNote,
                   backlinks, isDirty, isSaving, contextMenu, edits>>

\* list_tags answers: tags = ...
LoadTagsDone(c) ==
    /\ c.pc = "tags_list"
    /\ tags' = ListTags
    /\ noteCalls' = NoteReturned(c)
    /\ UNCHANGED <<nonNoteVars, mockNotes, vaultInfo, notes, currentNote,
                   backlinks, isDirty, isSaving, contextMenu, edits>>

\* a click on a note of the file tree -> openNote(path) up to its first await
OpenNote(path) ==
    /\ IsVaultOpen
    /\ NoteSlotFree
    /\ noteCalls' = NoteStarted(NoteCall("openNote", "note_wait", path, <<>>))
    /\ UNCHANGED <<nonNoteVars, mockNotes, vaultInfo, notes, currentNote,
                   backlinks, isDirty, isSaving, contextMenu, tags, edits>>

\* get_note settles in openNote(path): the note is stored and the backlinks
\* are requested, or the call ends with the command's error
NoteDone(c) ==
    /\ c.pc = "note_wait"
    /\ IF IsNull(GetNote(mockNotes, c.path))
       THEN /\ noteCalls' = NoteReturned(c)
            /\ UNCHANGED <<currentNote, isDirty>>
       ELSE /\ currentNote' = GetNote(mockNotes, c.path)
            /\ isDirty' = FALSE
            /\ noteCalls' = NoteMoved(c, [At(c, "links_wait") EXCEPT
                                             !.note = GetNote(mockNotes, c.path)])
    /\ UNCHANGED <<nonNoteVars, mockNotes, vaultInfo, notes, backlinks,
                   isSaving, contextMenu, tags, edits>>

\* get_backlinks answers in openNote(path): backlinks.set(links) and
\* pluginEvents.emitNoteOpen(toPluginNote(note))
LinksDone(c) ==
    /\ c.pc = "links_wait"
    /\ backlinks' = GetBacklinks(c.path)
    /\ pluginNote' = Some(ToPluginNote(Get(c.note)))
    /\ pluginContent' = Get(c.note).content
    /\ noteCalls' = NoteReturned(c)
    /\ UNCHANGED <<outerVars, mockNotes, vaultInfo, notes, currentNote,
                   isDirty, isSaving, contextMenu, tags, edits>>

\* how many create_note commands are outstanding
Creating ==
    BagCardinality([c \in {x \in NotesInFlight : x.pc = "create_wait"} |->
                       noteCalls[c]])

\* FileTree handleNewNote -> createNote(title) up to its first await
HandleNewNote(title) ==
    /\ IsVaultOpen
    /\ NoteSlotFree
    /\ Edits
    /\ Len(mockNotes) + Creating < MaxNotes
    /\ noteCalls' = NoteStarted(NoteCall("createNote", "create_wait", <<>>, title))
    /\ UNCHANGED <<nonNoteVars, mockNotes, vaultInfo, notes, currentNote,
                   backlinks, isDirty, isSaving, contextMenu, tags>>

\* create_note answers in createNote(title): refreshNotes(), then
\* openNote(meta.path)
CreateDone(c) ==
    /\ c.pc = "create_wait"
    /\ mockNotes' = CreateNote(mockNotes, c.arg)
    /\ LET d == [c EXCEPT !.path = NewNote(mockNotes, c.arg).path] IN
       IF IsVaultOpen
       THEN noteCalls' = NoteMoved(c, At(d, "create_refresh"))
       ELSE noteCalls' = NoteMoved(c, At(d, "note_wait"))
    /\ UNCHANGED <<nonNoteVars, vaultInfo, notes, currentNote, backlinks,
                   isDirty, isSaving, contextMenu, tags, edits>>

\* list_notes answers the refreshNotes() of createNote(title)
CreateRefreshDone(c) ==
    /\ c.pc = "create_refresh"
    /\ notes' = ListNotes(mockNotes)
    /\ noteCalls' = NoteMoved(c, At(c, "note_wait"))
    /\ UNCHANGED <<nonNoteVars, mockNotes, vaultInfo, currentNote, backlinks,
                   isDirty, isSaving, contextMenu, tags, edits>>

\* updateContent(content), from typing in the editor of the open note,
\* with its pluginEvents.emitNoteChange(content)
UpdateContent(content) ==
    /\ ~IsNull(currentNote)
    /\ currentNote' = Some([Get(currentNote) EXCEPT !.content = content])
    /\ isDirty' = TRUE
    /\ pluginContent' = content
    /\ UNCHANGED <<outerVars, pluginNote, mockNotes, vaultInfo, notes,
                   backlinks, isSaving, contextMenu, tags, noteCalls, edits>>

\* saveCurrentNote() up to `await api.saveNote`
SaveCurrentNote ==
    /\ ~IsNull(currentNote)
    /\ NoteSlotFree
    /\ Edits
    /\ isSaving' = TRUE
    /\ noteCalls' = NoteStarted([NoteCall("saveCurrentNote", "save_wait",
                                          Get(currentNote).path,
                                          Get(currentNote).content)
                                    EXCEPT !.note = currentNote])
    /\ UNCHANGED <<nonNoteVars, mockNotes, vaultInfo, notes, currentNote,
                   backlinks, isDirty, contextMenu, tags>>

\* save_note answers in saveCurrentNote(): refreshNotes(), which returns
\* at once with no vault open, and then
\* pluginEvents.emitNoteSave(toPluginNote(current))
SaveDone(c) ==
    /\ c.pc = "save_wait"
    /\ mockNotes' = SaveNote(mockNotes, c.path, c.arg)
    /\ isDirty' = FALSE
    /\ IF IsVaultOpen
       THEN /\ noteCalls' = NoteMoved(c, At(c, "save_refresh"))
            /\ UNCHANGED <<isSaving, pluginNote>>
       ELSE /\ noteCalls' = NoteReturned(c)
            /\ pluginNote' = Some(ToPluginNote(Get(c.note)))
            /\ isSaving' = FALSE
    /\ UNCHANGED <<outerVars, pluginContent, vaultInfo, notes, currentNote,
                   backlinks, contextMenu, tags, edits>>

\* list_notes answers the refreshNotes() of saveCurrentNote(), then
\* pluginEvents.emitNoteSave(toPluginNote(current))
SaveRefreshDone(c) ==
    /\ ListDone(c, "save_refresh")
    /\ pluginNote' = Some(ToPluginNote(Get(c.note)))
    /\ isSaving' = FALSE
    /\ UNCHANGED <<outerVars, pluginContent, mockNotes, vaultInfo,
                   currentNote, backlinks, isDirty, contextMenu, tags, edits>>

\* deleteCurrentNote() up to `await api.deleteNote`
DeleteCurrentNote ==
    /\ ~IsNull(currentNote)
    /\ NoteSlotFree
    /\ Edits
    /\ noteCalls' = NoteStarted(NoteCall("deleteCurrentNote", "delcur_wait",
                                         Get(currentNote).path, <<>>))
    /\ UNCHANGED <<nonNoteVars, mockNotes, vaultInfo, notes, currentNote,
                   backlinks, isDirty, isSaving, contextMenu, tags>>

\* delete_note answers in deleteCurrentNote()
DeleteCurrentDone(c) ==
    /\ c.pc = "delcur_wait"
    /\ mockNotes' = DeleteNote(mockNotes, c.path)
    /\ currentNote' = Null
    /\ backlinks' = <<>>
    /\ isDirty' = FALSE
    /\ IF IsVaultOpen
       THEN noteCalls' = NoteMoved(c, At(c, "delcur_refresh"))
       ELSE noteCalls' = NoteReturned(c)
    /\ UNCHANGED <<nonNoteVars, vaultInfo, notes, isSaving, contextMenu, tags,
                   edits>>

\* list_notes answers the refreshNotes() of deleteCurrentNote()
DeleteCurrentRefreshDone(c) ==
    /\ ListDone(c, "delcur_refresh")
    /\ UNCHANGED <<nonNoteVars, mockNotes, vaultInfo, currentNote, backlinks,
                   isDirty, isSaving, contextMenu, tags, edits>>

\* closeNote(), with its pluginEvents.emitNoteClose()
CloseNote ==
    /\ ~IsNull(currentNote)
    /\ currentNote' = Null
    /\ backlinks' = <<>>
    /\ isDirty' = FALSE
    /\ pluginNote' = Null
    /\ pluginContent' = <<>>
    /\ UNCHANGED <<outerVars, mockNotes, vaultInfo, notes, isSaving,
                   contextMenu, tags, noteCalls, edits>>

\* the characters that /[^a-zA-Z0-9-_ ]/ matches, among those of the model
Unsafe == {".", "/", "#", "[", "]", ",", "\n", "\t"}

\* replace(/[^a-zA-Z0-9-_ ]/g, '-')
Sanitize(s) == [i \in 1..Len(s) |-> IF s[i] \in Unsafe THEN "-" ELSE s[i]]

\* the index of the last '/' of a path (0: none)
LastSlash(path) ==
    IF \E i \in 1..Len(path) : path[i] = "/"
    THEN CHOOSE i \in 1..Len(path) :
            /\ path[i] = "/"
            /\ \A j \in (i + 1)..Len(path) : path[j] # "/"
    ELSE 0

\* path.replace(/[^/]+\.md$/, name)
ReplaceFileName(path, name) ==
    LET n == Len(path)
        k == LastSlash(path)
    IN IF n >= k + 3 /\ path[n - 1] = "." /\ path[n] = "md"
       THEN SubSeq(path, 1, k) \o name
       ELSE path

\* the newPath of handleRename
NewPath(path, newTitle) ==
    ReplaceFileName(path, ToLowerCase(Sanitize(newTitle)) \o <<".", "md">>)

\* FileTree handleContextMenu(event, note), on a note the tree shows
HandleContextMenu(i) ==
    /\ IsVaultOpen
    /\ contextMenu' = Some(notes[i])
    /\ UNCHANGED <<nonNoteVars, mockNotes, vaultInfo, notes, currentNote,
                   backlinks, isDirty, isSaving, tags, noteCalls, edits>>

\* FileTree handleWindowClick -> closeContextMenu()
HandleWindowClick ==
    /\ ~IsNull(contextMenu)
    /\ contextMenu' = Null
    /\ UNCHANGED <<nonNoteVars, mockNotes, vaultInfo, notes, currentNote,
                   backlinks, isDirty, isSaving, tags, noteCalls, edits>>

\* FileTree handleRename() up to `await api.renameNote`, the prompt
\* answered with newTitle
HandleRename(newTitle) ==
    /\ ~IsNull(contextMenu)
    /\ NoteSlotFree
    /\ Edits
    /\ newTitle # Get(contextMenu).title
    /\ contextMenu' = Null
    /\ noteCalls' = NoteStarted(NoteCall("handleRename", "rename_wait",
                                         Get(contextMenu).path,
                                         NewPath(Get(contextMenu).path, newTitle)))
    /\ UNCHANGED <<nonNoteVars, mockNotes, vaultInfo, notes, currentNote,
                   backlinks, isDirty, isSaving, tags>>

\* rename_note answers in handleRename()
RenameDone(c) ==
    /\ c.pc = "rename_wait"
    /\ mockNotes' = RenameNote(mockNotes, c.path, c.arg)
    /\ IF IsVaultOpen
       THEN noteCalls' = NoteMoved(c, At(c, "rename_refresh"))
       ELSE noteCalls' = NoteReturned(c)
    /\ UNCHANGED <<nonNoteVars, vaultInfo, notes, currentNote, backlinks,
                   isDirty, isSaving, contextMenu, tags, edits>>

\* list_notes answers the refreshNotes() of handleRename()
RenameRefreshDone(c) ==
    /\ ListDone(c, "rename_refresh")
    /\ UNCHANGED <<nonNoteVars, mockNotes, vaultInfo, currentNote, backlinks,
                   isDirty, isSaving, contextMenu, tags, edits>>

\* FileTree handleDelete() up to `await api.deleteNote`, the confirmation
\* accepted
HandleDelete ==
    /\ ~IsNull(contextMenu)
    /\ NoteSlotFree
    /\ Edits
    /\ contextMenu' = Null
    /\ noteCalls' = NoteStarted(NoteCall("handleDelete", "delete_wait",
                                         Get(contextMenu).path, <<>>))
    /\ UNCHANGED <<nonNoteVars, mockNotes, vaultInfo, notes, currentNote,
                   backlinks, isDirty, isSaving, tags>>

\* delete_note answers in handleDelete()
DeleteDone(c) ==
    /\ c.pc = "delete_wait"
    /\ mockNotes' = DeleteNote(mockNotes, c.path)
    /\ IF IsVaultOpen
       THEN noteCalls' = NoteMoved(c, At(c, "delete_refresh"))
       ELSE noteCalls' = NoteReturned(c)
    /\ UNCHANGED <<nonNoteVars, vaultInfo, notes, currentNote, backlinks,
                   isDirty, isSaving, contextMenu, tags, edits>>

\* list_notes answers the refreshNotes() of handleDelete()
DeleteRefreshDone(c) ==
    /\ ListDone(c, "delete_refresh")
    /\ UNCHANGED <<nonNoteVars, mockNotes, vaultInfo, currentNote, backlinks,
                   isDirty, isSaving, contextMenu, tags, edits>>

\* the pieces of a string between its commas
RECURSIVE SplitOnComma(_)
SplitOnComma(s) ==
    IF \E i \in 1..Len(s) : s[i] = ","
    THEN LET i == CHOOSE j \in 1..Len(s) :
                     s[j] = "," /\ \A k \in 1..(j - 1) : s[k] # ","
         IN <<SubSeq(s, 1, i - 1)>> \o SplitOnComma(SubSeq(s, i + 1, Len(s)))
    ELSE <<s>>

\* tagInput.split(',').map(t => t.trim()).filter(t => t.length > 0), for
\* tags of one word each
ParseTags(input) ==
    LET pieces == SplitOnComma(input)
        trimmed == [i \in 1..Len(pieces) |-> Trim(pieces[i])]
        kept == SelectSeq(trimmed, LAMBDA t : Len(t) > 0)
    IN [i \in 1..Len(kept) |-> kept[i][1]]

\* BacklinksPanel saveTags() / removeTag(): up to `await api.updateNoteTags`
UpdateTags(newTags) ==
    /\ ~IsNull(currentNote)
    /\ NoteSlotFree
    /\ Edits
    /\ noteCalls' = NoteStarted(NoteCall("updateTags", "tags_wait",
                                         Get(currentNote).path, newTags))
    /\ UNCHANGED <<nonNoteVars, mockNotes, vaultInfo, notes, currentNote,
                   backlinks, isDirty, isSaving, contextMenu, tags>>

\* BacklinksPanel saveTags(), the tag input holding `input`
SaveTags(input) == UpdateTags(ParseTags(input))

\* BacklinksPanel removeTag(tagToRemove), on a tag the open note shows
RemoveTag(tagToRemove) ==
    /\ ~IsNull(currentNote)
    /\ HasTag(Get(currentNote), tagToRemove)
    /\ UpdateTags(SelectSeq(Get(currentNote).tags, LAMBDA t : t # tagToRemove))

\* update_note_tags answers: reloadCurrentNote() up to `await api.getNote`
TagsDone(c) ==
    /\ c.pc = "tags_wait"
    /\ mockNotes' = UpdateNoteTags(mockNotes, c.path, c.arg)
    /\ IF IsNull(currentNote)
       THEN noteCalls' = NoteReturned(c)
       ELSE noteCalls' = NoteMoved(c, [At(c, "reload_note") EXCEPT
                                           !.path = Get(currentNote).path])
    /\ UNCHANGED <<nonNoteVars, vaultInfo, notes, currentNote, backlinks,
                   isDirty, isSaving, contextMenu, tags, edits>>

\* get_note settles in reloadCurrentNote(): the note is stored and the
\* backlinks are requested, or the error is caught by the caller
ReloadNoteDone(c) ==
    /\ c.pc = "reload_note"
    /\ IF IsNull(GetNote(mockNotes, c.path))
       THEN /\ noteCalls' = NoteReturned(c)
            /\ UNCHANGED currentNote
       ELSE /\ currentNote' = GetNote(mockNotes, c.path)
            /\ noteCalls' = NoteMoved(c, At(c, "reload_links"))
    /\ UNCHANGED <<nonNoteVars, mockNotes, vaultInfo, notes, backlinks,
                   isDirty, isSaving, contextMenu, tags, edits>>

\* get_backlinks answers in reloadCurrentNote(), then refreshNotes()
ReloadLinksDone(c) ==
    /\ c.pc = "reload_links"
    /\ backlinks' = GetBacklinks(c.path)
    /\ IF IsVaultOpen
       THEN noteCalls' = NoteMoved(c, At(c, "reload_refresh"))
       ELSE noteCalls' = NoteReturned(c)
    /\ UNCHANGED <<nonNoteVars, mockNotes, vaultInfo, notes, currentNote,
                   isDirty, isSaving, contextMenu, tags, edits>>

\* list_notes answers the refreshNotes() of reloadCurrentNote()
ReloadRefreshDone(c) ==
    /\ ListDone(c, "reload_refresh")
    /\ UNCHANGED <<nonNoteVars, mockNotes, vaultInfo, currentNote, backlinks,
                   isDirty, isSaving, contextMenu, tags, edits>>

\* the tags the model knows
TagNames == {"test", "welcome", "idea"}

NotesNext ==
    \/ OpenVault
    \/ CloseVault
    \/ LoadTags
    \/ \E path \in PathsOf(notes) : OpenNote(path)
    \/ \E i \in 1..Len(backlinks) : OpenNote(backlinks[i].source_path)
    \/ \E title \in NewTitles : HandleNewNote(title)
    \/ \E content \in TypedContents : UpdateContent(content)
    \/ SaveCurrentNote
    \/ DeleteCurrentNote
    \/ CloseNote
    \/ \E i \in 1..Len(notes) : HandleContextMenu(i)
    \/ HandleWindowClick
    \/ \E newTitle \in RenameTitles : HandleRename(newTitle)
    \/ HandleDelete
    \/ \E input \in TagInputs : SaveTags(input)
    \/ \E tag \in TagNames : RemoveTag(tag)
    \/ \E c \in NotesInFlight : OpenVaultDone(c)
    \/ \E c \in NotesInFlight : OpenListDone(c)
    \/ \E c \in NotesInFlight : CloseVaultDone(c)
    \/ \E c \in NotesInFlight : LoadTagsDone(c)
    \/ \E c \in NotesInFlight : NoteDone(c)
    \/ \E c \in NotesInFlight : LinksDone(c)
    \/ \E c \in NotesInFlight : CreateDone(c)
    \/ \E c \in NotesInFlight : CreateRefreshDone(c)
    \/ \E c \in NotesInFlight : SaveDone(c)
    \/ \E c \in NotesInFlight : SaveRefreshDone(c)
    \/ \E c \in NotesInFlight : DeleteCurrentDone(c)
    \/ \E c \in NotesInFlight : DeleteCurrentRefreshDone(c)
    \/ \E c \in NotesInFlight : RenameDone(c)
    \/ \E c \in NotesInFlight : RenameRefreshDone(c)
    \/ \E c \in NotesInFlight : DeleteDone(c)
    \/ \E c \in NotesInFlight : DeleteRefreshDone(c)
    \/ \E c \in NotesInFlight : TagsDone(c)
    \/ \E c \in NotesInFlight : ReloadNoteDone(c)
    \/ \E c \in NotesInFlight : ReloadLinksDone(c)
    \/ \E c \in NotesInFlight : ReloadRefreshDone(c)

----------------------------------------------------------------------------
(* src/lib/components/editor: wiki links.  A position in a string is the   *)
(* number of tokens before it.                                             *)

\* the first position at or after i (counted in tokens, from 1) whose token
\* is in stop, or Len(s) + 1
RECURSIVE RunEnd(_, _, _)
RunEnd(s, i, stop) ==
    IF i > Len(s) \/ s[i] \in stop THEN i ELSE RunEnd(s, i + 1, stop)

\* WIKI_LINK_RE = /\[\[([^\]|]+)(?:\|([^\]]+))?\]\]/ tried at the token
\* after position i: the match (index, the position after it, and group 1),
\* or Null
WikiLinkAt(s, i) ==
    LET open == i + 2 <= Len(s) /\ s[i + 1] = "[" /\ s[i + 2] = "["
        j == RunEnd(s, i + 3, {"]", "|"})
        k == RunEnd(s, j + 1, {"]"})
        closes(m) == m + 1 <= Len(s) /\ s[m] = "]" /\ s[m + 1] = "]"
    IN IF ~open \/ j = i + 3 THEN Null
       ELSE IF closes(j)
            THEN Some([index |-> i, lastIndex |-> j + 1,
                       target |-> SubSeq(s, i + 3, j - 1)])
       ELSE IF j <= Len(s) /\ s[j] = "|" /\ k > j + 1 /\ closes(k)
            THEN Some([index |-> i, lastIndex |-> k + 1,
                       target |-> SubSeq(s, i + 3, j - 1)])
       ELSE Null

\* WIKI_LINK_RE.exec(s) with lastIndex = i: the leftmost match at or after
\* position i, or Null
RECURSIVE Exec(_, _)
Exec(s, i) ==
    IF i > Len(s) THEN Null
    ELSE IF ~IsNull(WikiLinkAt(s, i)) THEN WikiLinkAt(s, i)
    ELSE Exec(s, i + 1)

\* the matches of `while ((match = WIKI_LINK_RE.exec(s)) !== null)` run to
\* its end from lastIndex = i
RECURSIVE ExecAll(_, _)
ExecAll(s, i) ==
    IF IsNull(Exec(s, i)) THEN <<>>
    ELSE <<Get(Exec(s, i))>> \o ExecAll(s, Get(Exec(s, i)).lastIndex)

\* Editor handleLinkClick(target): $notes.find(...), or Null
LinkedNote(ns, target) ==
    LET hit(n) == \/ ToLowerCase(n.title) = ToLowerCase(target)
                  \/ n.path = target
                  \/ n.path = target \o <<".", "md">>
    IN IF \E i \in 1..Len(ns) : hit(ns[i])
       THEN Some(ns[CHOOSE i \in 1..Len(ns) :
                        hit(ns[i]) /\ \A j \in 1..(i - 1) : ~hit(ns[j])])
       ELSE Null

\* the link tokens a click may carry
LinkTokens ==
    {<<"welcome">>, <<"welcome", ".", "md">>, <<"Link", " ", "Target">>,
     <<"link", "-", "target">>, <<"nowhere">>}

\* Editor handleLinkClick(target) up to the first await of openNote(path)
HandleLinkClick(target) ==
    /\ ~IsNull(currentNote)
    /\ NoteSlotFree
    /\ ~IsNull(LinkedNote(notes, target))
    /\ noteCalls' = NoteStarted(NoteCall("handleLinkClick", "note_wait",
                                         Get(LinkedNote(notes, target)).path,
                                         target))
    /\ UNCHANGED <<nonNoteVars, mockNotes, vaultInfo, notes, currentNote,
                   backlinks, isDirty, isSaving, contextMenu, tags, edits>>

\* following links from an open note
LinkNext ==
    \/ \E target \in LinkTokens : HandleLinkClick(target)
    \/ \E c \in NotesInFlight : NoteDone(c)
    \/ \E c \in NotesInFlight : LinksDone(c)

----------------------------------------------------------------------------
(* Operations whose backend command may reject: the vault store's          *)
(* openVault, checkVaultStatus, refreshNotes and event poll, and the graph *)
(* store's loadGraphData (performSearch is with the search store)          *)

\* mockGraphData.edges
MockGraphData ==
    [edges |-> << [source |-> <<"welcome", ".", "md">>,
                   target |-> <<"link", "-", "target", ".", "md">>],
                  [source |-> <<"link", "-", "target", ".", "md">>,
                   target |-> <<"welcome", ".", "md">>] >>]

\* get_vault_info, no close_vault having run
GetVaultInfo == [is_open |-> TRUE]

GraphStoreInit ==
    /\ graphData = [edges |-> <<>>]
    /\ isLoadingGraph = FALSE

\* open_vault or list_notes rejects in openVault(): error.set(...); throw e
OpenVaultFails(c) ==
    /\ c.pc \in {"open_wait", "open_list"}
    /\ vaultError' = Some("message")
    /\ lastFailure' = Failure("openVault", TRUE, TRUE)
    /\ noteCalls' = NoteReturned(c)
    /\ UNCHANGED <<syncVars, searchVars, otherVars, mockNotes, vaultInfo,
                   notes, currentNote, backlinks, isDirty, isSaving,
                   contextMenu, tags, edits>>

\* checkVaultStatus() up to `await api.getVaultInfo()`
CheckVaultStatus ==
    /\ NoteSlotFree
    /\ noteCalls' = NoteStarted(NoteCall("checkVaultStatus", "info_wait",
                                         <<>>, <<>>))
    /\ UNCHANGED <<nonNoteVars, mockNotes, vaultInfo, notes, currentNote,
                   backlinks, isDirty, isSaving, contextMenu, tags, edits>>

\* get_vault_info answers: vaultInfo.set(info) and `await api.listNotes()`
\* when the vault is open
StatusDone(c) ==
    /\ c.pc = "info_wait"
    /\ IF GetVaultInfo.is_open
       THEN /\ vaultInfo' = Some(GetVaultInfo)
            /\ noteCalls' = NoteMoved(c, At(c, "status_list"))
       ELSE /\ noteCalls' = NoteReturned(c)
            /\ UNCHANGED vaultInfo
    /\ UNCHANGED <<nonNoteVars, mockNotes, notes, currentNote, backlinks,
                   isDirty, isSaving, contextMenu, tags, edits>>

\* list_notes answers in checkVaultStatus()
StatusListDone(c) ==
    /\ ListDone(c, "status_list")
    /\ UNCHANGED <<nonNoteVars, mockNotes, vaultInfo, currentNote, backlinks,
                   isDirty, isSaving, contextMenu, tags, edits>>

\* get_vault_info or list_notes rejects in checkVaultStatus(): the catch
\* block is empty
StatusFails(c) ==
    /\ c.pc \in {"info_wait", "status_list"}
    /\ lastFailure' = Failure("checkVaultStatus", FALSE, FALSE)
    /\ noteCalls' = NoteReturned(c)
    /\ UNCHANGED <<syncVars, searchVars, vaultError, otherVars, mockNotes,
                   vaultInfo, notes, currentNote, backlinks, isDirty,
                   isSaving, contextMenu, tags, edits>>

\* refreshNotes(), as the vault-event listener calls it, up to its await
RefreshNotes ==
    /\ IsVaultOpen
    /\ NoteSlotFree
    /\ noteCalls' = NoteStarted(NoteCall("refreshNotes", "refresh_wait",
                                         <<>>, <<>>))
    /\ UNCHANGED <<nonNoteVars, mockNotes, vaultInfo, notes, currentNote,
                   backlinks, isDirty, isSaving, contextMenu, tags, edits>>

\* list_notes answers in refreshNotes()
RefreshNotesDone(c) ==
    /\ ListDone(c, "refresh_wait")
    /\ UNCHANGED <<nonNoteVars, mockNotes, vaultInfo, currentNote, backlinks,
                   isDirty, isSaving, contextMenu, tags, edits>>

\* list_notes rejects in refreshNotes(): there is no try, the promise of
\* refreshNotes() rejects
RefreshNotesFails(c) ==
    /\ c.pc = "refresh_wait"
    /\ lastFailure' = Failure("refreshNotes", TRUE, FALSE)
    /\ noteCalls' = NoteReturned(c)
    /\ UNCHANGED <<syncVars, searchVars, vaultError, otherVars, mockNotes,
                   vaultInfo, notes, currentNote, backlinks, isDirty,
                   isSaving, contextMenu, tags, edits>>

\* the setInterval callback of initVaultEvents() up to
\* `await api.pollVaultEvents()`
PollTick ==
    /\ IsVaultOpen
    /\ NoteSlotFree
    /\ noteCalls' = NoteStarted(NoteCall("poll", "poll_wait", <<>>, <<>>))
    /\ UNCHANGED <<nonNoteVars, mockNotes, vaultInfo, notes, currentNote,
                   backlinks, isDirty, isSaving, contextMenu, tags, edits>>

\* poll_vault_events answers: the command has emitted the queued events
\* as 'vault-event' events; its answer is not used
PollDone(c) ==
    /\ c.pc = "poll_wait"
    /\ emitted' = emitted \o watcherQueue
    /\ watcherQueue' = <<>>
    /\ noteCalls' = NoteReturned(c)
    /\ UNCHANGED <<syncVars, searchVars, failVars, graphVars, laterVars,
                   wiringVars, mockNotes, shownVars, edits>>

\* poll_vault_events rejects: `catch (e) { // Ignore polling errors }`
PollFails(c) ==
    /\ c.pc = "poll_wait"
    /\ lastFailure' = Failure("pollVaultEvents", FALSE, FALSE)
    /\ noteCalls' = NoteReturned(c)
    /\ UNCHANGED <<syncVars, searchVars, vaultError, otherVars, mockNotes,
                   vaultInfo, notes, currentNote, backlinks, isDirty,
                   isSaving, contextMenu, tags, edits>>

\* the graph page's onMount -> loadGraphData() up to its await
LoadGraphData ==
    /\ IsVaultOpen
    /\ NoteSlotFree
    /\ isLoadingGraph' = TRUE
    /\ noteCalls' = NoteStarted(NoteCall("loadGraphData", "graph_wait",
                                         <<>>, <<>>))
    /\ UNCHANGED <<syncVars, searchVars, failVars, graphData, eventVars,
                   laterVars, mockNotes, shownVars, edits>>

\* get_graph_data answers: graphData.set(data)
GraphDone(c) ==
    /\ c.pc = "graph_wait"
    /\ graphData' = MockGraphData
    /\ isLoadingGraph' = FALSE
    /\ noteCalls' = NoteReturned(c)
    /\ UNCHANGED <<syncVars, searchVars, failVars, eventVars, laterVars,
                   mockNotes, shownVars, edits>>

\* get_graph_data rejects: console.error only
GraphFails(c) ==
    /\ c.pc = "graph_wait"
    /\ isLoadingGraph' = FALSE
    /\ lastFailure' = Failure("loadGraphData", FALSE, FALSE)
    /\ noteCalls' = NoteReturned(c)
    /\ UNCHANGED <<syncVars, searchVars, vaultError, graphData, eventVars,
                   laterVars, mockNotes, shownVars, edits>>

\* the operations with their failures
FailNext ==
    \/ OpenVault
    \/ CheckVaultStatus
    \/ RefreshNotes
    \/ PollTick
    \/ LoadGraphData
    \/ \E query \in Queries : SetSearchQuery(query)
    \/ \E ms \in Delays : Tick(ms)
    \/ TimerFires
    \/ \E query \in Queries : SearchDone(query)
    \/ \E c \in NotesInFlight : OpenVaultDone(c)
    \/ \E c \in NotesInFlight : OpenListDone(c)
    \/ \E c \in NotesInFlight : OpenVaultFails(c)
    \/ \E c \in NotesInFlight : StatusDone(c)
    \/ \E c \in NotesInFlight : StatusListDone(c)
    \/ \E c \in NotesInFlight : StatusFails(c)
    \/ \E c \in NotesInFlight : RefreshNotesDone(c)
    \/ \E c \in NotesInFlight : RefreshNotesFails(c)
    \/ \E c \in NotesInFlight : PollDone(c)
    \/ \E c \in NotesInFlight : PollFails(c)
    \/ \E c \in NotesInFlight : GraphDone(c)
    \/ \E c \in NotesInFlight : GraphFails(c)

----------------------------------------------------------------------------
(* Vault events: files change under the open vault, the watcher queues an  *)
(* event for each change, poll_vault_events emits the queued events and    *)
(* the listener of initVaultEvents() handles them one by one               *)

\* refreshNotes() calls that may be in flight at once
MaxRefreshes == 2

\* the types of event the listener of initVaultEvents() refreshes on
RefreshingEvents ==
    {"index_complete", "note_created", "note_modified", "note_deleted",
     "note_renamed"}

\* a note file is created in the vault from outside the application
ExternalCreate(title) ==
    /\ IsVaultOpen
    /\ Len(mockNotes) < MaxNotes
    /\ Edits
    /\ mockNotes' = CreateNote(mockNotes, title)
    /\ watcherQueue' = Append(watcherQueue,
                              [type |-> "note_created",
                               path |-> NewNote(mockNotes, title).path])
    /\ UNCHANGED <<syncVars, searchVars, failVars, graphVars, laterVars,
                   wiringVars, emitted, shownVars, noteCalls>>

\* a note file is deleted from the vault from outside the application
ExternalDelete(path) ==
    /\ IsVaultOpen
    /\ Edits
    /\ mockNotes' = DeleteNote(mockNotes, path)
    /\ watcherQueue' = Append(watcherQueue,
                              [type |-> "note_deleted", path |-> path])
    /\ UNCHANGED <<syncVars, searchVars, failVars, graphVars, laterVars,
                   wiringVars, emitted, shownVars, noteCalls>>

\* the listener of initVaultEvents() runs on the next emitted event:
\* refreshNotes() up to its await, not awaited
OnVaultEvent ==
    /\ emitted # <<>>
    /\ BagCardinality(noteCalls) < MaxRefreshes
    /\ emitted' = Tail(emitted)
    /\ IF Head(emitted).type \in RefreshingEvents /\ IsVaultOpen
       THEN noteCalls' = NoteStarted(NoteCall("refreshNotes", "refresh_wait",
                                              <<>>, <<>>))
       ELSE UNCHANGED noteCalls
    /\ UNCHANGED <<syncVars, searchVars, failVars, graphVars, laterVars,
                   wiringVars, watcherQueue, mockNotes, shownVars, edits>>

\* the vault changing under the running application
EventNext ==
    \/ \E title \in NewTitles : ExternalCreate(title)
    \/ \E path \in PathsOf(mockNotes) : ExternalDelete(path)
    \/ PollTick
    \/ OnVaultEvent
    \/ \E c \in NotesInFlight : PollDone(c)
    \/ \E c \in NotesInFlight : PollFails(c)
    \/ \E c \in NotesInFlight : RefreshNotesDone(c)
    \/ \E c \in NotesInFlight : RefreshNotesFails(c)

----------------------------------------------------------------------------
(* src/lib/components/editor/wikiLinkPlugin.ts: the view plugin.  The one  *)
(* WIKI_LINK_RE object, with its lastIndex, serves every exec.             *)

\* the documents the editor view shows
Docs ==
    { <<"see", " ", "[", "[", "a", "]", "]", " ", "and", " ",
        "[", "[", "b", "|", "x", "]", "]">>,
      <<"[", "[", " ", "a", " ", "]", "]", "\n",
        "plain", " ", "[", "[", "b", "]", "]">>,
      <<"no", " ", "link">> }

\* view.state.doc.lineAt(pos).from
LineFrom(text, pos) ==
    CHOOSE j \in 0..pos :
       /\ j = 0 \/ text[j] = "\n"
       /\ \A k \in (j + 1)..pos : text[k] # "\n"

\* view.state.doc.lineAt(pos).to
LineTo(text, pos) ==
    CHOOSE j \in pos..Len(text) :
       /\ j = Len(text) \/ text[j + 1] = "\n"
       /\ \A k \in (pos + 1)..j : text[k] # "\n"

\* view.state.doc.lineAt(pos).text
LineText(text, pos) ==
    SubSeq(text, LineFrom(text, pos) + 1, LineTo(text, pos))

\* the while loop of the click handler over lineText, a line that starts
\* at from, entered with lastIndex = i: the target onLinkClick is called
\* with (Null when the loop ends without a call) and the lastIndex left
RECURSIVE ClickScan(_, _, _, _)
ClickScan(lineText, from, pos, i) ==
    LET match == Exec(lineText, i) IN
    IF IsNull(match)
    THEN [called |-> Null, lastIndex |-> 0]
    ELSE IF /\ pos >= from + Get(match).index
            /\ pos <= from + Get(match).lastIndex
         THEN [called |-> Some(Trim(Get(match).target)),
               lastIndex |-> Get(match).lastIndex]
         ELSE ClickScan(lineText, from, pos, Get(match).lastIndex)

\* the click handler of the plugin: a click at position pos of the
\* document, with Cmd/Ctrl held or not
Click(pos, modifier) ==
    LET from == LineFrom(doc, pos)
        lineText == LineText(doc, pos)
        found == ClickScan(lineText, from, pos, lastIndex)
    IN /\ IF modifier
          THEN /\ lastIndex' = found.lastIndex
               /\ lastClick' = Some([lineText |-> lineText, from |-> from,
                                     pos |-> pos, modifier |-> TRUE,
                                     called |-> found.called])
          ELSE /\ lastClick' = Some([lineText |-> lineText, from |-> from,
                                     pos |-> pos, modifier |-> FALSE,
                                     called |-> Null])
               /\ UNCHANGED lastIndex
       /\ UNCHANGED <<syncVars, searchVars, failVars, graphVars, eventVars,
                      apiVars, filterVars, pluginVars, doc, mockNotes,
                      noteVars>>

\* the document changes (typing, or another note is shown): update() with
\* docChanged runs getWikiLinkDecorations, whose loop ends on the exec that
\* finds nothing and leaves lastIndex at 0
DocChanged(text) ==
    /\ text # doc
    /\ doc' = text
    /\ lastIndex' = 0
    /\ UNCHANGED <<syncVars, searchVars, failVars, graphVars, eventVars,
                   apiVars, filterVars, pluginVars, lastClick, mockNotes,
                   noteVars>>

\* clicks on a document and changes of it
ClickNext ==
    \/ \E pos \in 0..Len(doc) : \E modifier \in BOOLEAN : Click(pos, modifier)
    \/ \E text \in Docs : DocChanged(text)

----------------------------------------------------------------------------
(* src/lib/stores/plugins.ts, src/lib/plugins/api.ts and the built-in      *)
(* plugins of src/lib/plugins/loader.ts.  A full id `<plugin>:<id>` is the *)
(* pair of its parts.                                                      *)

\* unsubscribe functions a run may hand out
MaxHandles == 3

\* getBuiltinPlugins(): the ids of the first two
Plugins == {"word-count", "pomodoro"}

\* manifest.permissions
Permissions(plugin) ==
    CASE plugin = "word-count"  -> {"note:read", "ui:statusbar"}
      [] plugin = "pomodoro"    -> {"ui:sidebar", "storage"}

\* one key of manifest.settings per plugin
SettingKey(plugin) ==
    CASE plugin = "word-count"  -> "wordsPerMinute"
      [] plugin = "pomodoro"    -> "workDuration"

\* manifest.settings[key].default
DefaultOf(plugin) ==
    CASE plugin = "word-count"  -> "200"
      [] plugin = "pomodoro"    -> "25"

\* the values a setting is given
SettingValues(plugin) ==
    CASE plugin = "word-count"  -> {"200", "300"}
      [] plugin = "pomodoro"    -> {"25", "50"}

\* the ids plugins register panels, items and commands under
PanelIds == {"timer"}
ItemIds == {"stats"}
CommandIds == {"open-today"}

\* the keys and values of plugin data
DataKeys == {"sessionsCompleted"}
DataValues == {"1"}

\* the callbacks plugins subscribe: onChange is the one the word count
\* plugin subscribes on activation
Callbacks == {"onChange", "f"}

\* effectiveSettings[key] = pluginSettings[key] ?? def.default
EffectiveSetting(settings, plugin) ==
    IF IsNull(settings[plugin]) THEN DefaultOf(plugin)
    ELSE Get(settings[plugin])

\* ctx.getSetting(key) of the plugin's context
GetSetting(plugin) == Get(contexts[plugin])

\* what activateBuiltinPlugin registers through the context
BuiltinPanels(plugin) ==
    IF plugin = "pomodoro" THEN {<<plugin, "timer">>} ELSE {}

BuiltinItems(plugin) ==
    IF plugin = "word-count" THEN {<<plugin, "stats">>} ELSE {}

\* an unsubscribe function: the pluginId and callback it closes over,
\* whether the plugin's code kept it, and whether the registration it was
\* returned for is still to be removed
Handle(plugin, callback, held) ==
    [plugin |-> plugin, callback |-> callback, held |-> held, live |-> TRUE]

\* cbs.indexOf(callback), counted from 1 (0: not found)
IndexOf(cbs, callback) ==
    IF \E i \in 1..Len(cbs) : cbs[i] = callback
    THEN CHOOSE i \in 1..Len(cbs) :
            cbs[i] = callback /\ \A j \in 1..(i - 1) : cbs[j] # callback
    ELSE 0

\* cbs.splice(idx, 1)
Splice(cbs, idx) == SubSeq(cbs, 1, idx - 1) \o SubSeq(cbs, idx + 1, Len(cbs))

\* the registry with every full id of the plugin removed
WithoutPlugin(ids, plugin) == {id \in ids : id[1] # plugin}

\* the plugin system after initPlugins() on a fresh profile: the built-in
\* plugins enabled and activated
PluginsInit ==
    /\ contexts = [p \in Plugins |-> Some(DefaultOf(p))]
    /\ storedSettings = [p \in Plugins |-> Null]
    /\ registry = [sidebarPanels |-> BuiltinPanels("pomodoro"),
                   statusBarItems |-> BuiltinItems("word-count"),
                   commands |-> {}]
    /\ storage = [k \in Plugins \X DataKeys |-> Null]
    /\ callbacks = [p \in Plugins |->
                       IF p = "word-count" THEN <<"onChange">> ELSE <<>>]
    /\ handles = <<Handle("word-count", "onChange", FALSE)>>

\* all but the plugin system
nonPluginVars ==
    <<syncVars, searchVars, failVars, graphVars, eventVars, clickVars,
      apiVars, filterVars, mockNotes, noteVars>>

\* setPluginEnabled(pluginId, true) -> activatePlugin(plugin):
\* createPluginContext and the built-in plugin's activation
EnablePlugin(plugin) ==
    /\ IsNull(contexts[plugin])
    /\ Len(handles) < MaxHandles \/ plugin # "word-count"
    /\ contexts' = [contexts EXCEPT
                       ![plugin] = Some(EffectiveSetting(storedSettings, plugin))]
    /\ registry' = [sidebarPanels |->
                        registry.sidebarPanels \cup BuiltinPanels(plugin),
                    statusBarItems |->
                        registry.statusBarItems \cup BuiltinItems(plugin),
                    commands |-> registry.commands]
    /\ IF plugin = "word-count"
       THEN /\ callbacks' = [callbacks EXCEPT
                                ![plugin] = Append(@, "onChange")]
            /\ handles' = Append(handles, Handle(plugin, "onChange", FALSE))
       ELSE UNCHANGED <<callbacks, handles>>
    /\ UNCHANGED <<nonPluginVars, storedSettings, storage>>

\* setPluginEnabled(pluginId, false) -> deactivatePlugin(plugin)
DisablePlugin(plugin) ==
    /\ ~IsNull(contexts[plugin])
    /\ registry' = [sidebarPanels |->
                        WithoutPlugin(registry.sidebarPanels, plugin),
                    statusBarItems |->
                        WithoutPlugin(registry.statusBarItems, plugin),
                    commands |-> WithoutPlugin(registry.commands, plugin)]
    /\ callbacks' = [callbacks EXCEPT ![plugin] = <<>>]
    /\ handles' = [i \in 1..Len(handles) |->
                      IF handles[i].plugin = plugin
                      THEN [handles[i] EXCEPT !.live = FALSE]
                      ELSE handles[i]]
    /\ contexts' = [contexts EXCEPT ![plugin] = Null]
    /\ UNCHANGED <<nonPluginVars, storedSettings, storage>>

\* setPluginSetting(pluginId, key, value)
SetPluginSetting(plugin, value) ==
    /\ storedSettings' = [storedSettings EXCEPT ![plugin] = Some(value)]
    /\ UNCHANGED <<nonPluginVars, contexts, registry, storage, callbacks,
                   handles>>

\* ctx.registerSidebarPanel(panel), called by the plugin's code
RegisterSidebarPanel(plugin, id) ==
    /\ ~IsNull(contexts[plugin])
    /\ registry' = [registry EXCEPT !.sidebarPanels = @ \cup {<<plugin, id>>}]
    /\ UNCHANGED <<nonPluginVars, contexts, storedSettings, storage,
                   callbacks, handles>>

\* ctx.registerStatusBarItem(item), called by the plugin's code
RegisterStatusBarItem(plugin, id) ==
    /\ ~IsNull(contexts[plugin])
    /\ registry' = [registry EXCEPT !.statusBarItems = @ \cup {<<plugin, id>>}]
    /\ UNCHANGED <<nonPluginVars, contexts, storedSettings, storage,
                   callbacks, handles>>

\* ctx.registerCommand(command), called by the plugin's code
RegisterCommand(plugin, id) ==
    /\ ~IsNull(contexts[plugin])
    /\ registry' = [registry EXCEPT !.commands = @ \cup {<<plugin, id>>}]
    /\ UNCHANGED <<nonPluginVars, contexts, storedSettings, storage,
                   callbacks, handles>>

\* ctx.setData(key, value), called by the plugin's code
SetData(plugin, key, value) ==
    /\ ~IsNull(contexts[plugin])
    /\ storage' = [storage EXCEPT ![<<plugin, key>>] = Some(value)]
    /\ UNCHANGED <<nonPluginVars, contexts, storedSettings, registry,
                   callbacks, handles>>

\* ctx.deleteData(key), called by the plugin's code
DeleteData(plugin, key) ==
    /\ ~IsNull(contexts[plugin])
    /\ storage' = [storage EXCEPT ![<<plugin, key>>] = Null]
    /\ UNCHANGED <<nonPluginVars, contexts, storedSettings, registry,
                   callbacks, handles>>

\* ctx.onNoteChange(callback) -> subscribe(noteChangeCallbacks, pluginId,
\* callback), called by the plugin's code, which keeps the function
\* returned
OnNoteChange(plugin, callback) ==
    /\ ~IsNull(contexts[plugin])
    /\ Len(handles) < MaxHandles
    /\ callbacks' = [callbacks EXCEPT ![plugin] = Append(@, callback)]
    /\ handles' = Append(handles, Handle(plugin, callback, TRUE))
    /\ UNCHANGED <<nonPluginVars, contexts, storedSettings, registry,
                   storage>>

\* the plugin's code calls the i-th unsubscribe function handed out
Unsubscribe(i) ==
    LET h == handles[i]
        cbs == callbacks[h.plugin]
        idx == IndexOf(cbs, h.callback)
    IN /\ h.held
       /\ callbacks' = IF idx # 0
                       THEN [callbacks EXCEPT ![h.plugin] = Splice(cbs, idx)]
                       ELSE callbacks
       /\ handles' = [handles EXCEPT ![i].live = FALSE]
       /\ UNCHANGED <<nonPluginVars, contexts, storedSettings, registry,
                      storage>>

\* the plugin system and the calls plugins make through their contexts
PluginNext ==
    \/ \E plugin \in Plugins : EnablePlugin(plugin)
    \/ \E plugin \in Plugins : DisablePlugin(plugin)
    \/ \E plugin \in Plugins : \E value \in SettingValues(plugin) :
          SetPluginSetting(plugin, value)
    \/ \E plugin \in Plugins : \E id \in PanelIds :
          RegisterSidebarPanel(plugin, id)
    \/ \E plugin \in Plugins : \E id \in ItemIds :
          RegisterStatusBarItem(plugin, id)
    \/ \E plugin \in Plugins : \E id \in CommandIds :
          RegisterCommand(plugin, id)
    \/ \E plugin \in Plugins : \E key \in DataKeys : \E value \in DataValues :
          SetData(plugin, key, value)
    \/ \E plugin \in Plugins : \E key \in DataKeys : DeleteData(plugin, key)
    \/ \E plugin \in Plugins : \E callback \in Callbacks :
          OnNoteChange(plugin, callback)
    \/ \E i \in 1..Len(handles) : Unsubscribe(i)

----------------------------------------------------------------------------
(* src/lib/stores/vault.ts: the tag filter of the file browser              *)

\* setTagFilter() calls that may be in flight at once
MaxFilterCalls == 2

\* the tags the sidebar offers: those list_tags names
OfferedTags == {MockTags[i].name : i \in 1..Len(MockTags)}

\* all but the tag filter
nonFilterVars ==
    <<syncVars, searchVars, failVars, graphVars, eventVars, clickVars,
      apiVars, pluginVars, mockNotes, noteVars>>

\* Sidebar handleTagSelect -> setTagFilter(tag) with a tag, up to
\* `await api.getNotesByTag(tag)`
SetTagFilter(tag) ==
    /\ IsVaultOpen
    /\ BagCardinality(filterCalls) < MaxFilterCalls
    /\ tagFilter' = Some(tag)
    /\ filterCalls' = filterCalls (+) SetToBag({tag})
    /\ UNCHANGED <<nonFilterVars, filteredNotePaths>>

\* get_notes_by_tag answers a setTagFilter(tag):
\* filteredNotePaths.set(new Set(taggedNotes.map(n => n.path)))
FilterDone(tag) ==
    /\ BagIn(tag, filterCalls)
    /\ filteredNotePaths' = Some(PathsOf(GetNotesByTag(mockNotes, tag)))
    /\ filterCalls' = filterCalls (-) SetToBag({tag})
    /\ UNCHANGED <<nonFilterVars, tagFilter>>

\* clearTagFilter(), from the file tree's clear button or a change of tab
\* (setTagFilter(null) does the same)
ClearTagFilter ==
    /\ IsVaultOpen
    /\ tagFilter' = Null
    /\ filteredNotePaths' = Null
    /\ UNCHANGED <<nonFilterVars, filterCalls>>

\* the tag filter set and cleared, get_notes_by_tag answering
FilterNext ==
    \/ \E tag \in OfferedTags : SetTagFilter(tag)
    \/ \E tag \in OfferedTags : FilterDone(tag)
    \/ ClearTagFilter

----------------------------------------------------------------------------
(* src/lib/stores/editor.ts: openNote(path) called while earlier openNote  *)
(* calls still await the backend                                           *)

\* openNote() calls that may be in flight at once
MaxOpenCalls == 2

\* a click on a note of the file tree -> openNote(path) up to its first
\* await, whatever other openNote calls are in flight
OpenNoteOverlapping(path) ==
    /\ IsVaultOpen
    /\ BagCardinality(noteCalls) < MaxOpenCalls
    /\ noteCalls' = NoteStarted(NoteCall("openNote", "note_wait", path, <<>>))
    /\ UNCHANGED <<nonNoteVars, mockNotes, vaultInfo, notes, currentNote,
                   backlinks, isDirty, isSaving, contextMenu, tags, edits>>

BacklinksNext ==
    \/ \E path \in PathsOf(notes) : OpenNoteOverlapping(path)
    \/ \E c \in NotesInFlight : NoteDone(c)
    \/ \E c \in NotesInFlight : LinksDone(c)
    \/ CloseNote

----------------------------------------------------------------------------
(* src/lib/stores/vault.ts: initVaultEvents() and cleanupVaultEvents(),    *)
(* called by the layout's onMount and onDestroy                            *)

\* listeners that may be registered or on their way at once
MaxListeners == 3

\* the handles of listeners and of interval timers
Handles == 1..MaxListeners

\* the handle that a new listener or timer gets: one not in use
NewHandle(used) ==
    CHOOSE h \in Handles \ used : \A g \in Handles \ used : h <= g

nonWiringVars == <<syncVars, mockNotes, noteVars, searchVars, failVars,
                   graphVars, laterVars, watcherQueue, emitted>>

VaultEventsInit ==
    /\ unlistenFn = Null
    /\ pollInterval = Null
    /\ listeners = {}
    /\ timers = {}
    /\ listening = 0
    /\ lastWiringOp = "none"

\* initVaultEvents() up to `await api.onVaultEvent(...)`; it returns at
\* once when unlistenFn is set
InitVaultEvents ==
    /\ Cardinality(listeners) + listening < MaxListeners
    /\ lastWiringOp' = "initVaultEvents"
    /\ IF IsNull(unlistenFn)
       THEN listening' = listening + 1
       ELSE UNCHANGED listening
    /\ UNCHANGED <<nonWiringVars, unlistenFn, pollInterval, listeners, timers>>

\* api.onVaultEvent answers with the listener registered: unlistenFn is
\* assigned, and setInterval starts the poll timer when pollInterval is null
ListenDone ==
    /\ listening > 0
    /\ listening' = listening - 1
    /\ listeners' = listeners \cup {NewHandle(listeners)}
    /\ unlistenFn' = Some(NewHandle(listeners))
    /\ IF IsNull(pollInterval)
       THEN /\ pollInterval' = Some(NewHandle(timers))
            /\ timers' = timers \cup {NewHandle(timers)}
       ELSE UNCHANGED <<pollInterval, timers>>
    /\ UNCHANGED <<nonWiringVars, lastWiringOp>>

\* cleanupVaultEvents()
CleanupVaultEvents ==
    /\ lastWiringOp' = "cleanupVaultEvents"
    /\ IF IsNull(unlistenFn)
       THEN UNCHANGED <<unlistenFn, listeners>>
       ELSE /\ listeners' = listeners \ {Get(unlistenFn)}
            /\ unlistenFn' = Null
    /\ IF IsNull(pollInterval)
       THEN UNCHANGED <<pollInterval, timers>>
       ELSE /\ timers' = timers \ {Get(pollInterval)}
            /\ pollInterval' = Null
    /\ UNCHANGED <<nonWiringVars, listening>>

\* a running interval timer fires: the callback of setInterval up to
\* `await api.pollVaultEvents()`
IntervalFires ==
    /\ timers # {}
    /\ PollTick

WiringNext ==
    \/ InitVaultEvents
    \/ ListenDone
    \/ CleanupVaultEvents
    \/ IntervalFires
    \/ OpenVault
    \/ \E c \in NotesInFlight : OpenVaultDone(c)
    \/ \E c \in NotesInFlight : OpenListDone(c)
    \/ \E c \in NotesInFlight : PollDone(c)
    \/ \E c \in NotesInFlight : PollFails(c)

----------------------------------------------------------------------------
(* Specifications *)

\* the graph store as constructed, no failure yet
OtherInit ==
    /\ lastFailure = Null
    /\ GraphStoreInit
    /\ watcherQueue = <<>>
    /\ emitted = <<>>
    /\ VaultEventsInit
    /\ lastIndex = 0
    /\ doc = <<>>
    /\ lastClick = Null
    /\ TagFilterInit
    /\ PluginsInit

\* the note collections a search may run against: the fixture notes less
\* any deleted ones
RECURSIVE SubSequences(_)
SubSequences(s) ==
    IF s = <<>> THEN {<<>>}
    ELSE LET rest == SubSequences(Tail(s))
         IN rest \cup {<<Head(s)>> \o r : r \in rest}

\* the sync store and its component state at rest, the repository
\* initialized
SyncAtRest == SyncInit /\ repo.initialized

\* the sync store, from the mounting of the sync button
SyncSpecInit ==
    /\ SyncInit
    /\ mockNotes = FixtureNotes
    /\ NoteStoresInit
    /\ SearchStoreInit
    /\ PluginEventsInit
    /\ OtherInit

SyncSpec == SyncSpecInit /\ [][SyncNext]_vars

\* the search store over every note collection
SearchInit ==
    /\ SyncAtRest
    /\ mockNotes \in SubSequences(FixtureNotes)
    /\ NoteStoresInit
    /\ SearchStoreInit
    /\ PluginEventsInit
    /\ OtherInit

SearchSpec == SearchInit /\ [][SearchNext]_vars

\* the vault and editor stores over the fixture notes, from the start of
\* the application
NotesInit ==
    /\ SyncAtRest
    /\ mockNotes = FixtureNotes
    /\ NoteStoresInit
    /\ SearchStoreInit
    /\ PluginEventsInit
    /\ OtherInit

NotesSpec == NotesInit /\ [][NotesNext]_vars

\* a note titled like the path of another: what create_note makes of the
\* title 'welcome.md'
TitledNote == NewNote(FixtureNotes, <<"welcome", ".", "md">>)

\* the sequences without repetition over the members of a set
RECURSIVE Arrangements(_)
Arrangements(S) ==
    {<<>>} \cup UNION {{<<x>> \o r : r \in Arrangements(S \ {x})} : x \in S}

\* the note collections links are followed in: the first two fixture notes
\* and the titled note, in every order deletes and creates can leave
LinkNoteLists ==
    Arrangements({FixtureNotes[1], FixtureNotes[2], TitledNote}) \ {<<>>}

\* a vault open on such a collection, one of its notes open in the editor
LinkInit ==
    /\ SyncAtRest
    /\ SearchStoreInit
    /\ mockNotes \in LinkNoteLists
    /\ vaultInfo = Some([is_open |-> TRUE])
    /\ notes = ListNotes(mockNotes)
    /\ \E i \in 1..Len(mockNotes) :
          /\ currentNote = Some(mockNotes[i])
          /\ backlinks = GetBacklinks(mockNotes[i].path)
          /\ pluginNote = Some(ToPluginNote(mockNotes[i]))
          /\ pluginContent = mockNotes[i].content
    /\ isDirty = FALSE
    /\ isSaving = FALSE
    /\ contextMenu = Null
    /\ tags = <<>>
    /\ noteCalls = EmptyBag
    /\ edits = 0
    /\ vaultError = Null
    /\ OtherInit

LinkSpec == LinkInit /\ [][LinkNext]_vars

\* the operations that may fail, from the start of the application
FailInit ==
    /\ SyncAtRest
    /\ mockNotes = FixtureNotes
    /\ NoteStoresInit
    /\ SearchStoreInit
    /\ PluginEventsInit
    /\ OtherInit

FailSpec == FailInit /\ [][FailNext]_vars

\* a vault open on the fixture notes, the notes listed, the listener of
\* initVaultEvents() registered and its poll timer running
EventInit ==
    /\ SyncAtRest
    /\ SearchStoreInit
    /\ PluginEventsInit
    /\ OtherInit
    /\ mockNotes = FixtureNotes
    /\ vaultInfo = Some([is_open |-> TRUE])
    /\ notes = ListNotes(mockNotes)
    /\ currentNote = Null
    /\ backlinks = <<>>
    /\ isDirty = FALSE
    /\ isSaving = FALSE
    /\ contextMenu = Null
    /\ tags = <<>>
    /\ noteCalls = EmptyBag
    /\ edits = 0
    /\ vaultError = Null

EventSpec == EventInit /\ [][EventNext]_vars

\* an editor view constructed on one of the documents
ClickInit ==
    /\ SyncAtRest
    /\ mockNotes = FixtureNotes
    /\ NoteStoresInit
    /\ SearchStoreInit
    /\ lastFailure = Null
    /\ GraphStoreInit
    /\ watcherQueue = <<>>
    /\ emitted = <<>>
    /\ VaultEventsInit
    /\ lastIndex = 0
    /\ doc \in Docs
    /\ lastClick = Null
    /\ PluginEventsInit
    /\ TagFilterInit
    /\ PluginsInit

ClickSpec == ClickInit /\ [][ClickNext]_vars

\* the plugin system, from the end of initPlugins()
PluginInit ==
    /\ SyncAtRest
    /\ mockNotes = FixtureNotes
    /\ NoteStoresInit
    /\ SearchStoreInit
    /\ PluginEventsInit
    /\ OtherInit

PluginSpec == PluginInit /\ [][PluginNext]_vars

\* a vault open on any of the note collections, no tag filter set
FilterInit ==
    /\ SyncAtRest
    /\ SearchStoreInit
    /\ PluginEventsInit
    /\ OtherInit
    /\ mockNotes \in SubSequences(FixtureNotes)
    /\ vaultInfo = Some([is_open |-> TRUE])
    /\ notes = ListNotes(mockNotes)
    /\ currentNote = Null
    /\ backlinks = <<>>
    /\ isDirty = FALSE
    /\ isSaving = FALSE
    /\ contextMenu = Null
    /\ tags = <<>>
    /\ noteCalls = EmptyBag
    /\ edits = 0
    /\ vaultError = Null

FilterSpec == FilterInit /\ [][FilterNext]_vars

\* the search store over the fixture notes, with the time between its steps
DebounceNext ==
    \/ \E query \in Queries : SetSearchQuery(query)
    \/ \E ms \in Delays : Tick(ms)
    \/ TimerFires
    \/ \E query \in Queries : SearchDone(query)
    \/ ClearSearch

DebounceSpec == NotesInit /\ [][DebounceNext]_vars

\* the editor store over the opened vault of the fixture notes, with
\* overlapping openNote calls
BacklinksSpec == EventInit /\ [][BacklinksNext]_vars

\* the editor store over the opened vault of the fixture notes: a note is
\* opened, typed into, saved and closed
SaveNext ==
    \/ \E path \in PathsOf(notes) : OpenNote(path)
    \/ \E content \in TypedContents : UpdateContent(content)
    \/ SaveCurrentNote
    \/ CloseNote
    \/ \E c \in NotesInFlight : NoteDone(c)
    \/ \E c \in NotesInFlight : LinksDone(c)
    \/ \E c \in NotesInFlight : SaveDone(c)
    \/ \E c \in NotesInFlight : SaveRefreshDone(c)

SaveSpec == EventInit /\ [][SaveNext]_vars

\* the wiring of the vault events, from the start of the application
WiringSpec == NotesInit /\ [][WiringNext]_vars

----------------------------------------------------------------------------
(* Claims about the sync store *)

\* the sync commands that change the working copy or the remote
SyncOpPcs == {"init_wait", "pull_wait", "push_wait", "resolve_wait"}

CopiesInFlight(c) == IF c.pc \in SyncOpPcs THEN CopiesIn(c, calls) ELSE 0

RECURSIVE SumCopies(_)
SumCopies(S) ==
    IF S = {} THEN 0
    ELSE LET c == CHOOSE x \in S : TRUE
         IN CopiesInFlight(c) + SumCopies(S \ {c})

\* how many of them are outstanding
SyncOpsInFlight == SumCopies(InFlight)

\* the sync() calls that have invoked sync_push
Pushing == {c \in InFlight : c.kind = "sync"
                             /\ c.pc \in {"push_wait", "push_refresh"}}

\* C1: in every sync() call whose pull result reports a non-empty conflict
\* list, sync_push is never invoked, whatever the status refresh did
C1_PushSkippedOnConflicts ==
    \A c \in Pushing : Len(Get(c.pullResult).conflicts) = 0

\* C2: at most one of sync_init, sync_push, sync_pull and
\* sync_resolve_conflict is outstanding at any time
C2_OneSyncOpInFlight == SyncOpsInFlight <= 1

\* the step in which the backend call of the push() or pull() c rejects: the
\* only step that takes a call from that await straight to its return
RejectsIn(c, waitPc) == c.pc = waitPc /\ calls' = Returned(c)

\* C3: when sync_push or sync_pull rejects, the call sets syncError, returns
\* null and leaves the syncStatus store as it was
C3_FailureLeavesStatus ==
    [][\A c \in InFlight :
          /\ RejectsIn(c, "pull_wait") =>
                /\ syncStatus' = syncStatus
                /\ ~IsNull(syncError')
                /\ lastResult' = [op |-> "pull", value |-> Null]
          /\ RejectsIn(c, "push_wait") =>
                /\ syncStatus' = syncStatus
                /\ ~IsNull(syncError')
                /\ lastResult' = [op |-> "push", value |-> Null]]_vars

\* a pull() has failed while the store held a status
C3_Witness ==
    /\ lastResult = [op |-> "pull", value |-> Null]
    /\ ~IsNull(syncError)
    /\ ~IsNull(syncStatus)
    /\ ~isSyncing

----------------------------------------------------------------------------
(* Claims about search *)

\* C5: a search_notes command with an empty or whitespace-only query
\* answers with an empty result list, for every note collection, and right
\* after setSearchQuery with such a query searchResults is empty
C5_BlankQueryFindsNothing ==
    /\ (~IsNull(lastSearch) /\ IsBlank(Get(lastSearch).query))
          => Get(lastSearch).results = <<>>
    /\ (lastSearchOp = "setSearchQuery" /\ IsBlank(searchQuery))
          => searchResults = <<>>

----------------------------------------------------------------------------
(* Claims about notes *)

\* the step in which the command that the note call c awaits at waitPc
\* answers
Answers(c, waitPc) ==
    c.pc = waitPc /\ CopiesIn(c, noteCalls') < CopiesIn(c, noteCalls)

\* C6: when the save_note(p, c) of a saveCurrentNote() call has completed,
\* get_note(p) answers with a note whose content is c
C6_SaveRoundTrip ==
    [][\A c \in NotesInFlight :
          Answers(c, "save_wait") =>
             /\ ~IsNull(GetNote(mockNotes', c.path))
             /\ Get(GetNote(mockNotes', c.path)).content = c.arg]_vars

\* the path p is the source of a backlink that get_backlinks lists for a
\* note of ns
IsBacklinkSource(ns, p) ==
    \E q \in PathsOf(ns) :
       \E i \in 1..Len(GetBacklinks(q)) : GetBacklinks(q)[i].source_path = p

\* the path p is not listed, not found by any search, neither source nor
\* target of a backlink, and not open in the editor
Gone(ns, open, p) ==
    /\ p \notin PathsOf(ListNotes(ns))
    /\ \A q \in Queries : p \notin PathsOf(SearchNotes(ns, q))
    /\ ~IsBacklinkSource(ns, p)
    /\ GetBacklinks(p) = <<>>
    /\ IsNull(open) \/ Get(open).path # p

\* C7: when the delete_note(p) of deleteCurrentNote() or of the file
\* tree's Delete has completed, p is gone from the listing, from every
\* search result, from every backlink listing and from the editor
C7_DeleteRemovesEverywhere ==
    [][\A c \in NotesInFlight :
          (Answers(c, "delete_wait") \/ Answers(c, "delcur_wait")) =>
             Gone(mockNotes', currentNote', c.path)]_vars

\* C8: when a rename_note(old, new) with new # old has succeeded, the
\* listing holds new and not old, no backlink names old as its source and
\* the editor's open note is not at old
C8_RenameUpdatesEverywhere ==
    [][\A c \in NotesInFlight :
          (/\ Answers(c, "rename_wait")
           /\ FindIndex(mockNotes, c.path) # 0
           /\ c.arg # c.path) =>
             /\ c.arg \in PathsOf(ListNotes(mockNotes'))
             /\ c.path \notin PathsOf(ListNotes(mockNotes'))
             /\ ~IsBacklinkSource(mockNotes', c.path)
             /\ IsNull(currentNote') \/ Get(currentNote').path # c.path]_vars

\* C9: no two notes of the listing share a path
C9_PathsUnique ==
    \A i, j \in 1..Len(ListNotes(mockNotes)) :
       i # j => ListNotes(mockNotes)[i].path # ListNotes(mockNotes)[j].path

\* the count list_tags reports for a tag (0 when it does not list the tag)
CountOf(tagInfos, tag) ==
    IF \E i \in 1..Len(tagInfos) : tagInfos[i].name = tag
    THEN (CHOOSE info \in {tagInfos[i] : i \in 1..Len(tagInfos)} :
             info.name = tag).count
    ELSE 0

\* C10: for every tag, the count list_tags reports is the number of notes
\* whose tags hold it
C10_TagCountsMatch ==
    \A tag \in TagNames :
       CountOf(ListTags, tag) = Len(GetNotesByTag(mockNotes, tag))

----------------------------------------------------------------------------
(* Claims about links *)

\* the body of the note a holds a wiki link that resolves, among the notes
\* ns, to the note at path p
LinksTo(ns, a, p) ==
    \E i \in 1..Len(ExecAll(a.content, 0)) :
       LET found == LinkedNote(ListNotes(ns), Trim(ExecAll(a.content, 0)[i].target))
       IN ~IsNull(found) /\ Get(found).path = p

\* C11: when get_backlinks(B) answers an openNote(B), its answer holds an
\* entry whose source_path is A for every note A whose body holds a link
\* that resolves to B
C11_BacklinksAgreeWithBodies ==
    [][\A c \in NotesInFlight :
          Answers(c, "links_wait") =>
             \A i \in 1..Len(mockNotes) :
                LinksTo(mockNotes, mockNotes[i], c.path) =>
                   mockNotes[i].path \in
                      {backlinks'[k].source_path : k \in 1..Len(backlinks')}]_vars

\* the step in which a click on a link whose token is target starts the
\* opening of the note at path
Follows(target, path) ==
    LET c == NoteCall("handleLinkClick", "note_wait", path, target)
    IN CopiesIn(c, noteCalls') > CopiesIn(c, noteCalls)

\* C12: a click on a link whose token is the path of a listed note opens
\* that note, whatever the titles of the other notes are
C12_ExactPathFirst ==
    [][\A target \in LinkTokens : \A path \in PathsOf(notes) :
          (Follows(target, path) /\ target \in PathsOf(notes)) =>
             path = target]_vars

----------------------------------------------------------------------------
(* Claims about failures *)

\* C13: when the backend command of a search, a graph load, a vault-event
\* poll, a vault status check or a note-list refresh has rejected, the
\* operation has rejected in turn or has put the error into an error store
C13_NothingFailsSilently ==
    (/\ ~IsNull(lastFailure)
     /\ Get(lastFailure).op \in {"performSearch", "loadGraphData",
                                 "pollVaultEvents", "checkVaultStatus",
                                 "refreshNotes"}) =>
        Get(lastFailure).thrown \/ Get(lastFailure).stored

\* every vault event has been polled, emitted and handled, and no command
\* is in flight
EventsSettled ==
    /\ watcherQueue = <<>>
    /\ emitted = <<>>
    /\ noteCalls = EmptyBag

\* C14: once every vault event that occurred with the vault open has been
\* handled and every refresh has ended, the notes list is the listing of
\* the vault: no event is left out of it
C14_EventsReachNotesList ==
    (IsVaultOpen /\ EventsSettled) => notes = ListNotes(mockNotes)

\* the wiki-link tokens of a line that starts at from which hold the
\* position pos
LinksAt(lineText, from, pos) ==
    SelectSeq(ExecAll(lineText, 0),
              LAMBDA m : pos >= from + m.index /\ pos <= from + m.lastIndex)

\* C15: a click with Cmd/Ctrl held at a position inside a wiki-link token
\* of the clicked line calls onLinkClick with the token's trimmed target,
\* whatever clicks came before
C15_ClickFollowsLink ==
    (/\ ~IsNull(lastClick)
     /\ Get(lastClick).modifier
     /\ LinksAt(Get(lastClick).lineText, Get(lastClick).from,
                Get(lastClick).pos) # <<>>) =>
        Get(lastClick).called =
           Some(Trim(LinksAt(Get(lastClick).lineText, Get(lastClick).from,
                             Get(lastClick).pos)[1].target))

----------------------------------------------------------------------------
(* Claims about the plugin API *)

\* C16: whenever no editor operation is under way, getCurrentNote() is the
\* open note of the editor store (null if none) and getCurrentContent()
\* its content (the empty string if none)
C16_PluginSeesCurrentNote ==
    noteCalls = EmptyBag =>
       IF IsNull(currentNote)
       THEN pluginNote = Null /\ pluginContent = <<>>
       ELSE /\ pluginNote = Some(ToPluginNote(Get(currentNote)))
            /\ pluginContent = Get(currentNote).content

\* how many times emitNoteChange invokes the callback for the plugin: once
\* for each of its occurrences in the plugin's array
Invocations(plugin, callback) ==
    Cardinality({i \in 1..Len(callbacks[plugin]) :
                    callbacks[plugin][i] = callback})

\* the registrations of the callback by the plugin that have been removed
\* neither by their own unsubscribe function nor by the plugin's cleanup
LiveRegistrations(plugin, callback) ==
    Cardinality({i \in 1..Len(handles) :
                    /\ handles[i].plugin = plugin
                    /\ handles[i].callback = callback
                    /\ handles[i].live})

\* C17: a callback is invoked once for each of its registrations whose own
\* unsubscribe function has not been called: an unsubscribe function
\* removes its registration only, and only once
C17_UnsubscribeRemovesOwnRegistration ==
    \A plugin \in Plugins : \A callback \in Callbacks :
       Invocations(plugin, callback) = LiveRegistrations(plugin, callback)

\* C18: every sidebar panel, status bar item and command of the registry
\* and every stored datum belongs to a plugin whose manifest declares the
\* permission for it
C18_PermissionsGateTheApi ==
    /\ \A id \in registry.sidebarPanels : "ui:sidebar" \in Permissions(id[1])
    /\ \A id \in registry.statusBarItems :
          "ui:statusbar" \in Permissions(id[1])
    /\ \A id \in registry.commands : "ui:command" \in Permissions(id[1])
    /\ \A k \in Plugins \X DataKeys :
          ~IsNull(storage[k]) => "storage" \in Permissions(k[1])

\* C19: the getSetting of every plugin context returns the value last
\* stored for the plugin's setting, or the manifest default when none was
\* stored
C19_GetSettingIsCurrent ==
    \A plugin \in Plugins :
       ~IsNull(contexts[plugin]) =>
          GetSetting(plugin) = EffectiveSetting(storedSettings, plugin)

----------------------------------------------------------------------------
(* Claims about the tag filter *)

\* C20: whenever no setTagFilter() call is in flight, filteredNotePaths is
\* null if tagFilter is null and otherwise the set of the paths of the
\* notes that carry the tag of tagFilter
C20_FilterMatchesTag ==
    filterCalls = EmptyBag =>
       IF IsNull(tagFilter)
       THEN filteredNotePaths = Null
       ELSE filteredNotePaths =
               Some(PathsOf(GetNotesByTag(mockNotes, Get(tagFilter))))

----------------------------------------------------------------------------
(* Claims about the timing and the ordering of searches *)

\* C21: search is debounced: of a burst of setSearchQuery calls, each less
\* than 150 ms after the one before, at most one search_notes call comes,
\* and it carries the last query of the burst, which is then not blank
C21_SearchIsDebounced ==
    /\ Len(burst.issued) <= 1
    /\ \A i \in 1..Len(burst.issued) :
          /\ burst.issued[i] = Get(burst.last)
          /\ ~IsBlank(burst.issued[i])

\* a burst of several calls that began with another query than it ended
\* with has issued its one search, for the last query
C21_Witness ==
    /\ ~IsNull(burst.first)
    /\ burst.first # burst.last
    /\ burst.issued = <<Get(burst.last)>>

\* C22: the search results shown belong to the latest query: whenever no
\* debounce timer is pending, no search is in flight and no search has
\* failed, searchResults is what search_notes finds for the searchQuery in
\* the box (checked for the queries that are not blank)
C22_ResultsBelongToLatestQuery ==
    (/\ IsNull(searchTimeout)
     /\ searches = EmptyBag
     /\ IsNull(lastFailure)
     /\ ~IsBlank(searchQuery))
        => searchResults = SearchNotes(mockNotes, searchQuery)

\* C23: clearSearch() is final until the next query: from clearSearch() to
\* the next setSearchQuery the searchQuery is '' and searchResults is []
C23_ClearSearchIsFinal ==
    cleared => (searchQuery = <<>> /\ searchResults = <<>>)

----------------------------------------------------------------------------
(* Claims about overlapping calls of the editor store *)

\* an openNote() or a reloadCurrentNote() awaits the backend
OpeningOrReloading ==
    \E c \in NotesInFlight :
        c.pc \in {"note_wait", "links_wait", "reload_note", "reload_links"}

\* C24: the backlinks shown belong to the open note: whenever no openNote
\* or reloadCurrentNote call is in flight and a note is open, the backlinks
\* store holds what get_backlinks answers for currentNote.path
C24_BacklinksBelongToOpenNote ==
    (~OpeningOrReloading /\ ~IsNull(currentNote))
        => backlinks = GetBacklinks(Get(currentNote).path)

\* C25: the unsaved-changes flag is never lost: whenever a note is open and
\* isDirty is false, currentNote.content is the content the backend holds
\* for its path (the one last loaded from or saved to it)
C25_CleanMeansSaved ==
    (~isDirty /\ ~IsNull(currentNote))
        => LET stored == GetNote(mockNotes, Get(currentNote).path)
           IN /\ ~IsNull(stored)
              /\ Get(currentNote).content = Get(stored).content

----------------------------------------------------------------------------
(* Claims about the wiring of the vault events *)

\* C26: the wiring of the vault events does not leak: at most one
\* 'vault-event' listener and at most one poll timer are active at any
\* time, and none is when cleanupVaultEvents() was the last call and no
\* initVaultEvents() is pending
C26_WiringDoesNotLeak ==
    /\ Cardinality(listeners) <= 1
    /\ Cardinality(timers) <= 1
    /\ (lastWiringOp = "cleanupVaultEvents" /\ listening = 0)
          => (listeners = {} /\ timers = {})

====
